---------------------------- MODULE Spec2Model ----------------------------
(***************************************************************************)
(* Model of proSLAM's frame-to-frame tracker, BaseTracker::compute() and   *)
(* its helpers (src/src/motion_estimation/base_tracker.cpp).               *)
(*                                                                         *)
(* One compute() call is one action.  The framepoint generator, the pose   *)
(* optimizer, the camera projection and the lost-point recovery are the    *)
(* tracker's collaborators: what they hand back is an input of the call.   *)
(*                                                                         *)
(* Poses are rigid motions of the subgroup of SE(3) generated by the       *)
(* screw motions about the z axis (rotation by ang, translation by tr)     *)
(* and the half turn about the x axis (flip).  Angles are counted in units *)
(* of 0.001 rad and translations in units of 0.01 m, so that the motion    *)
(* thresholds of compute() are whole numbers.                              *)
(***************************************************************************)
EXTENDS Integers, Sequences, FiniteSets, TLC

\* ------------------------------------------------------------------- state
VARIABLES
  tracker,         \* the members of BaseTracker
  context,         \* the WorldMap: pose, frames, landmarks, currently tracked set
  generator,       \* the framepoint generator: framepointsInImage()
  pose_optimizer,  \* the pose optimizer: what it was given and what it reports
  last             \* what the last compute() call did, step by step

vars == << tracker, context, generator, pose_optimizer, last >>

\* ------------------------------------------------------------------ bounds
\* number of compute() calls explored
MaxFrames == 4
\* largest number of framepoints the generator hands out for one frame
MaxGenerated == 3

\* ------------------------------------------------- configuration of the run
\* image grid of the framepoint generator (numberOfRowsImage/numberOfColsImage)
numberOfRowsImage == 2
numberOfColsImage == 2
\* BaseTracker::setup(): the camera image has the size of the grid
camera_rows == numberOfRowsImage
camera_cols == numberOfColsImage
minimum_number_of_landmarks_to_track == 1
\* Frame::minimumTrackLengthForLandmarkCreation(): a parameter of the run
minimumTrackLengthForLandmarkCreation == context.minimum_track_length_for_landmark_creation
range_point_tracking == 1
pixel_distance_tracking_threshold_minimum == 2
pixel_distance_tracking_threshold_maximum == 3
maximum_flow_pixels_squared == 2
matchingDistanceTrackingThreshold == 1

\* Frame::Status
Localizing == "Localizing"
Tracking == "Tracking"

\* ------------------------------------------------------------------- poses
Identity == [flip |-> FALSE, ang |-> 0, tr |-> 0]

Sign(m) == IF m.flip THEN -1 ELSE 1

\* TransformMatrix3D product a*b
Compose(a, b) ==
  [flip |-> (a.flip # b.flip), ang |-> a.ang + Sign(a) * b.ang, tr |-> a.tr + Sign(a) * b.tr]

\* TransformMatrix3D::inverse()
Inverse(a) ==
  [flip |-> a.flip, ang |-> -(Sign(a) * a.ang), tr |-> -(Sign(a) * a.tr)]

Abs(x) == IF x < 0 THEN -x ELSE x

\* pi in units of 0.001 rad: the rotation angle of a half turn
HalfTurn == 3142

\* WorldMap::toOrientationRodrigues(m.linear()).norm(): the rotation angle
RodriguesNorm(m) == IF m.flip THEN HalfTurn ELSE Abs(m.ang)

\* m.translation().norm()
TranslationNorm(m) == Abs(m.tr)

\* the literals 0.001 (rad) and 0.01 (m) of compute(), in the units above
delta_angular_threshold == 1
delta_translational_threshold == 1

\* ------------------------------------------------------------- framepoints
\* id 0 is the null pointer; a framepoint of frame f generated in cell k of
\* the grid (row-major, from 1) has id f*IdStride + k, a recovered one
\* f*IdStride + NumberOfCells + (position in the lost buffer)
NumberOfCells == numberOfRowsImage * numberOfColsImage

IdStride == 2 * NumberOfCells + 1

NoPoint ==
  [id |-> 0, row |-> 0, col |-> 0, descriptor |-> 0, near |-> FALSE,
   previous |-> 0, track_length |-> 0, landmark |-> 0]

Cells == (0 .. numberOfRowsImage - 1) \X (0 .. numberOfColsImage - 1)

CellIndex(row, col) == row * numberOfColsImage + col + 1

\* the cells in the order of a row-major scan
RowMajor == [k \in 1 .. NumberOfCells |->
               << (k - 1) \div numberOfColsImage, (k - 1) % numberOfColsImage >>]

EmptyGrid == [cell \in Cells |-> NoPoint]

Max(a, b) == IF a < b THEN b ELSE a
Min(a, b) == IF b < a THEN b ELSE a

\* FramePoint::setPrevious(previous_): the link, the inherited landmark and
\* the track length
setPrevious(point, previous_point) ==
  [point EXCEPT !.previous = previous_point.id,
                !.landmark = previous_point.landmark,
                !.track_length = previous_point.track_length + 1]

\* std::vector::resize
Resize(vector, size) ==
  IF size = 0 THEN << >>
  ELSE [k \in 1 .. size |-> IF k <= Len(vector) THEN vector[k] ELSE NoPoint]

\* cv::norm(descriptor, descriptor, DESCRIPTOR_NORM) on one-bit descriptors
DescriptorDistance(a, b) == IF a = b THEN 0 ELSE 1

\* ------------------------------------------------------ _getImageCoordinates
\* lines 494-495 with >= in place of >: a projection on the right or the
\* lower border of the image is out of the field of view
RECURSIVE VisibleIndicesInsideBorder(_, _)
VisibleIndicesInsideBorder(raw, i) ==
  IF i > Len(raw) THEN << >>
  ELSE IF raw[i].x < 0 \/ raw[i].x >= camera_cols \/ raw[i].y < 0 \/ raw[i].y >= camera_rows
       THEN VisibleIndicesInsideBorder(raw, i + 1)
       ELSE << i >> \o VisibleIndicesInsideBorder(raw, i + 1)

\* raw[i] is the projection of previous framepoint i on the current image
\* plane (camera matrix times point in camera, normalised by z)
RECURSIVE VisibleIndices(_, _)
VisibleIndices(raw, i) ==
  IF i > Len(raw) THEN << >>
  ELSE IF raw[i].x < 0 \/ raw[i].x > camera_cols \/ raw[i].y < 0 \/ raw[i].y > camera_rows
       THEN VisibleIndices(raw, i + 1)
       ELSE << i >> \o VisibleIndices(raw, i + 1)

\* the elements of vector at the given indices
RECURSIVE Pick(_, _)
Pick(vector, indices) ==
  IF indices = << >> THEN << >>
  ELSE << vector[Head(indices)] >> \o Pick(vector, Tail(indices))

\* the previous frame's point vector and the projections, both compacted to
\* the points projected inside the image
getImageCoordinates(previous_points, raw) ==
  LET visible == VisibleIndices(raw, 1)
  IN [points      |-> Pick(previous_points, visible),
      projections |-> Pick(raw, visible)]

\* --------------------------------------------------------- _trackFramepoints
\* lines 303 and 367 with <= in place of <: the last candidate at a given
\* distance wins
CloserOrEqual(pixel_distance, pixel_distance_best) == pixel_distance <= pixel_distance_best

\* pixel_distance < pixel_distance_best
Closer(pixel_distance, pixel_distance_best) == pixel_distance < pixel_distance_best

\* one search stage: row-major scan of the window [row_start, row_end) x
\* [col_start, col_end), skipping the cells of the excluded window; best is
\* [distance, row, col]
RECURSIVE ScanWindow(_, _, _, _, _, _, _)
ScanWindow(grid, previous_point, projection, window, excluded, best, k) ==
  IF k > NumberOfCells THEN best
  ELSE
    LET row == RowMajor[k][1]
        col == RowMajor[k][2]
        inside == /\ row >= window.row_start /\ row < window.row_end
                  /\ col >= window.col_start /\ col < window.col_end
        evaluated == ~ (\/ row < excluded.row_start \/ row >= excluded.row_end
                        \/ col < excluded.col_start \/ col >= excluded.col_end)
        pixel_distance == Abs(projection.row - row) + Abs(projection.col - col)
        matching_distance == DescriptorDistance(previous_point.descriptor, grid[<<row, col>>].descriptor)
        better == /\ inside
                  /\ grid[<<row, col>>].id # 0
                  /\ ~ evaluated
                  /\ Closer(pixel_distance, best.distance)
                  /\ matching_distance < matchingDistanceTrackingThreshold
    IN ScanWindow(grid, previous_point, projection, window, excluded,
                  IF better THEN [distance |-> pixel_distance, row |-> row, col |-> col] ELSE best,
                  k + 1)

\* the borders of a search window of the given radius around the projection
Borders(projection, radius) ==
  [row_start |-> Max(projection.row - radius, 0),
   row_end   |-> Min(projection.row + radius, numberOfRowsImage),
   col_start |-> Max(projection.col - radius, 0),
   col_end   |-> Min(projection.col + radius, numberOfColsImage)]

\* a window that excludes nothing
NoWindow == [row_start |-> 0, row_end |-> 0, col_start |-> 0, col_end |-> 0]

\* the record of a stage that was not run
NotRun == [distance |-> -1, row |-> -1, col |-> -1]

\* the track consistency check on the pixel flow
FlowConsistent(best, previous_point) ==
  (best.row - previous_point.row) * (best.row - previous_point.row)
    + (best.col - previous_point.col) * (best.col - previous_point.col)
  < maximum_flow_pixels_squared

\* the outcome of stage 2 for one previous framepoint, best2 being the best
\* candidate of the region (lines 377-405); stage1 and stage2 record what
\* the two scans ended with
RegionMatch(best1, best2, previous_point, threshold) ==
  IF best2.distance < threshold /\ FlowConsistent(best2, previous_point)
  THEN [matched |-> TRUE, row |-> best2.row, col |-> best2.col, stage |-> 2,
        stage1 |-> best1, stage2 |-> best2]
  ELSE [matched |-> FALSE, row |-> -1, col |-> -1, stage |-> 0,
        stage1 |-> best1, stage2 |-> best2]

\* lines 312-405 with stage 2 skipped whenever stage 1 found a candidate:
\* a candidate the flow check rejects leaves the point unmatched
PointMatchSkippingRegion(grid, previous_point, projection, threshold, point, best1) ==
  IF best1.distance < threshold
  THEN IF FlowConsistent(best1, previous_point)
       THEN [matched |-> TRUE, row |-> best1.row, col |-> best1.col, stage |-> 1,
             stage1 |-> best1, stage2 |-> NotRun]
       ELSE [matched |-> FALSE, row |-> -1, col |-> -1, stage |-> 0,
             stage1 |-> best1, stage2 |-> NotRun]
  ELSE RegionMatch(best1,
                   ScanWindow(grid, previous_point, projection,
                              Borders(projection, threshold), point,
                              [distance |-> threshold, row |-> best1.row, col |-> best1.col], 1),
                   previous_point, threshold)

\* the outcome of stage 1, best1 being the best candidate of the vicinity
\* point (lines 312-340); without a committed match stage 2 scans the
\* region, keeping row_best and col_best (lines 342-375)
PointMatch(grid, previous_point, projection, threshold, point, best1) ==
  IF best1.distance < threshold /\ FlowConsistent(best1, previous_point)
  THEN [matched |-> TRUE, row |-> best1.row, col |-> best1.col, stage |-> 1,
        stage1 |-> best1, stage2 |-> NotRun]
  ELSE RegionMatch(best1,
                   ScanWindow(grid, previous_point, projection,
                              Borders(projection, threshold), point,
                              [distance |-> threshold, row |-> best1.row, col |-> best1.col], 1),
                   previous_point, threshold)

\* stage 1 in the vicinity of the projection (lines 287-310)
VicinityMatch(grid, previous_point, projection, threshold, point) ==
  PointMatch(grid, previous_point, projection, threshold, point,
             ScanWindow(grid, previous_point, projection, point, NoWindow,
                        [distance |-> threshold, row |-> -1, col |-> -1], 1))

\* the association of one previous framepoint:
\* [matched, row, col, stage, stage1, stage2]
MatchPoint(grid, previous_point, projection, threshold) ==
  VicinityMatch(grid, previous_point, projection, threshold,
                Borders(projection, range_point_tracking))

\* lines 337 and 402 left out: the cell stays occupied
KeepCell(grid, row, col) == grid

\* the grid after a committed match: the cell is disabled for further matching
ConsumeCell(grid, row, col) == [grid EXCEPT ![<<row, col>>] = NoPoint]

\* a committed match (lines 318-338, 383-403): acc is [grid, points,
\* tracked, lost_points, lost, close, far, steps], the counters tracked and
\* lost being the indices the next point is written to
CommitMatch(acc, current_point, match) ==
  [grid        |-> ConsumeCell(acc.grid, match.row, match.col),
   points      |-> [acc.points EXCEPT ![acc.tracked + 1] = current_point],
   tracked     |-> acc.tracked + 1,
   lost_points |-> acc.lost_points,
   lost        |-> acc.lost,
   close       |-> IF current_point.landmark # 0 /\ current_point.near
                   THEN acc.close + 1 ELSE acc.close,
   far         |-> IF current_point.landmark # 0 /\ ~ current_point.near
                   THEN acc.far + 1 ELSE acc.far,
   steps       |-> acc.steps]

\* lines 407-411 without the test of line 408: every unmatched point is
\* put into the lost buffer
LoseEveryPoint(acc, previous_point) ==
  [acc EXCEPT !.lost_points[acc.lost + 1] = previous_point, !.lost = acc.lost + 1]

\* no match found (lines 407-411)
LosePoint(acc, previous_point) ==
  IF previous_point.landmark # 0
  THEN [acc EXCEPT !.lost_points[acc.lost + 1] = previous_point, !.lost = acc.lost + 1]
  ELSE acc

\* one previous framepoint with the outcome of its association
TrackStep(acc, previous_point, match) ==
  IF match.matched
  THEN CommitMatch(acc, setPrevious(acc.grid[<<match.row, match.col>>], previous_point), match)
  ELSE LosePoint(acc, previous_point)

\* the framepoints in the cells of the grid
Occupants(grid) == {grid[cell] : cell \in {c \in Cells : grid[c].id # 0}}

\* the step is added to the record of the association: the framepoints the
\* searches saw in the grid, the previous point, its projection and the
\* outcome
TrackPoint(acc, previous_point, projection, match) ==
  [TrackStep(acc, previous_point, match) EXCEPT
     !.steps = Append(acc.steps, [candidates |-> Occupants(acc.grid),
                                  previous_point |-> previous_point,
                                  projection |-> projection, match |-> match])]

\* lines 273-411 for previous point i, the projection rounded to its cell
TrackProjected(acc, previous_point, projection, threshold) ==
  TrackPoint(acc, previous_point, projection,
             MatchPoint(acc.grid, previous_point, projection, threshold))

\* the loop over all past points
RECURSIVE TrackLoop(_, _, _, _, _)
TrackLoop(previous_points, projections, threshold, acc, i) ==
  IF i > Len(previous_points) THEN acc
  ELSE TrackLoop(previous_points, projections, threshold,
                 TrackProjected(acc, previous_points[i],
                                [row |-> projections[i].y, col |-> projections[i].x],
                                threshold),
                 i + 1)

\* the pixel distance threshold from the status before the previous call's
\* switch, with the two thresholds exchanged
SelectThresholdExchanged(previous_status) ==
  IF previous_status = Localizing
  THEN pixel_distance_tracking_threshold_minimum
  ELSE pixel_distance_tracking_threshold_maximum

\* the pixel distance threshold selected from the previous status
SelectThreshold(previous_status) ==
  IF previous_status = Localizing
  THEN pixel_distance_tracking_threshold_maximum
  ELSE pixel_distance_tracking_threshold_minimum

\* what _trackFramepoints leaves behind (lines 413-414 and the members)
TrackResult(visible, threshold, result) ==
  [previous_points |-> visible.points,
   projections     |-> visible.projections,
   threshold       |-> threshold,
   grid            |-> result.grid,
   points          |-> Resize(result.points, result.tracked),
   lost_points     |-> Resize(result.lost_points, result.lost),
   steps           |-> result.steps,
   number_of_tracked_points          |-> result.tracked,
   number_of_lost_points             |-> result.lost,
   number_of_tracked_landmarks_close |-> result.close,
   number_of_tracked_landmarks_far   |-> result.far]

\* lines 244-411 for the visible previous points: the frame's vector is
\* resized to the potential points and the lost buffer to the visible points
TrackVisible(visible, threshold, grid, number_of_potential_points) ==
  TrackResult(visible, threshold,
              TrackLoop(visible.points, visible.projections, threshold,
                        [grid |-> grid,
                         points |-> Resize(<< >>, number_of_potential_points),
                         tracked |-> 0,
                         lost_points |-> Resize(<< >>, Len(visible.points)),
                         lost |-> 0,
                         close |-> 0, far |-> 0, steps |-> << >>], 1))

\* _trackFramepoints(previous_frame_, current_frame_)
trackFramepoints(previous_points, raw, grid, previous_status, number_of_potential_points) ==
  TrackVisible(getImageCoordinates(previous_points, raw), SelectThreshold(previous_status), grid, number_of_potential_points)

\* ---------------------------------------------------------- pose optimizer
\* what the optimizer reports for one framepoint: skipped (error -1, not an
\* inlier), inlier, or outlier
Skipped == [error |-> -1, inlier |-> FALSE]
Inlier  == [error |-> 0, inlier |-> TRUE]
Outlier == [error |-> 1, inlier |-> FALSE]

\* numberOfInliers(): the framepoints flagged as inliers
RECURSIVE CountInliers(_)
CountInliers(flags) ==
  IF flags = << >> THEN 0
  ELSE (IF flags[1].inlier THEN 1 ELSE 0) + CountInliers(Tail(flags))

\* the framepoint weight of the Tracking branch, as the fraction num/den;
\* a division 0/0 of reals is NaN
WeightFramepoint(far, close, tracked) ==
  IF tracked = 0
  THEN [nan |-> TRUE, num |-> 0, den |-> 1]
  ELSE [nan |-> FALSE, num |-> tracked - (far + 7 * close), den |-> tracked]

\* weight_framepoint <= 1 (false for NaN)
WeightAssertion(weight) == ~ weight.nan /\ weight.num <= weight.den

\* line 155 without std::max: the weight is passed as computed
NoClampWeight(weight) == weight

\* std::max(weight_framepoint, 0.1), that is (a < b) ? b : a
ClampWeight(weight) ==
  IF ~ weight.nan /\ 10 * weight.num < weight.den
  THEN [nan |-> FALSE, num |-> 1, den |-> 10]
  ELSE weight

\* ---------------------------------------------------- compute(): decisions
\* the pose computation of the Localizing branch is acceptable
PoseAcceptable(number_of_inliers) ==
  number_of_inliers > 2 * minimum_number_of_landmarks_to_track

\* line 168 with <= in place of <
TrackLostOrEqual(number_of_inliers) ==
  number_of_inliers <= minimum_number_of_landmarks_to_track

\* not enough inliers in the Tracking branch: track lost
TrackLost(number_of_inliers) ==
  number_of_inliers < minimum_number_of_landmarks_to_track

\* lines 111 and 187 with >= in place of >
MotionSignificantOrEqual(motion) ==
  \/ RodriguesNorm(motion) >= delta_angular_threshold
  \/ TranslationNorm(motion) >= delta_translational_threshold

\* the posit result is significant enough
MotionSignificant(motion) ==
  \/ RodriguesNorm(motion) > delta_angular_threshold
  \/ TranslationNorm(motion) > delta_translational_threshold

\* Frame::countPoints(min_track_length_)
RECURSIVE countPoints(_, _)
countPoints(points, min_track_length) ==
  IF points = << >> THEN 0
  ELSE (IF points[1].track_length >= min_track_length THEN 1 ELSE 0)
       + countPoints(Tail(points), min_track_length)

\* line 130 with >= in place of >
CanSwitchStateOrEqual(number_of_good_points) ==
  number_of_good_points >= minimum_number_of_landmarks_to_track

\* the Localizing branch switches to Tracking
CanSwitchState(number_of_good_points) ==
  number_of_good_points > minimum_number_of_landmarks_to_track

\* ---------------------------------------------------------- _pruneFramepoints
\* lines 522-531 without the tests: every point is kept
KeepEveryFramepoint(point, flag) == TRUE

\* the point is kept: no landmark, or skipped by the optimizer, or an inlier
KeepFramepoint(point, flag) ==
  \/ point.landmark = 0
  \/ flag.error = -1
  \/ flag.inlier

\* the loop of lines 515-532: acc is [points, number_of_tracked_points], a
\* kept point is moved to the index the counter gives
RECURSIVE PruneLoop(_, _, _)
PruneLoop(acc, flags, index_point) ==
  IF index_point > Len(acc.points) THEN acc
  ELSE PruneLoop(IF KeepFramepoint(acc.points[index_point], flags[index_point])
                 THEN [points |-> [acc.points EXCEPT ![acc.number_of_tracked_points + 1] =
                                                        acc.points[index_point]],
                       number_of_tracked_points |-> acc.number_of_tracked_points + 1]
                 ELSE acc,
                 flags, index_point + 1)

\* _pruneFramepoints without line 533: the vector keeps its size
PruneResultWithoutResize(result) ==
  [points |-> result.points,
   number_of_tracked_points |-> result.number_of_tracked_points]

\* line 533: the vector is resized to the counter
PruneResult(result) ==
  [points |-> Resize(result.points, result.number_of_tracked_points),
   number_of_tracked_points |-> result.number_of_tracked_points]

\* _pruneFramepoints(frame_): [points, number_of_tracked_points]
pruneFramepoints(points, flags) ==
  PruneResult(PruneLoop([points |-> points, number_of_tracked_points |-> 0], flags, 1))

\* ------------------------------------------------------------- _recoverPoints
\* lost point k is recovered iff k is in recovered: a new framepoint at the
\* place of the lost one, linked to it and carrying its landmark
RECURSIVE RecoverLoop(_, _, _, _)
RecoverLoop(lost_points, recovered, frame_id, k) ==
  IF k > Len(lost_points) THEN << >>
  ELSE (IF k \in recovered
        THEN << setPrevious([id |-> frame_id * IdStride + NumberOfCells + k,
                             row |-> lost_points[k].row, col |-> lost_points[k].col,
                             descriptor |-> lost_points[k].descriptor,
                             near |-> lost_points[k].near,
                             previous |-> 0, track_length |-> 1, landmark |-> 0],
                            lost_points[k]) >>
        ELSE << >>)
       \o RecoverLoop(lost_points, recovered, frame_id, k + 1)

recoverPoints(points, lost_points, recovered, frame_id) ==
  points \o RecoverLoop(lost_points, recovered, frame_id, 1)

\* ----------------------------------------------------------- _updateLandmarks
\* line 547 with a track length one short of the minimum let through
IsMatureOneEarlier(point) == point.track_length + 1 >= minimumTrackLengthForLandmarkCreation

\* the point is mature enough to be a landmark
IsMature(point) == point.track_length >= minimumTrackLengthForLandmarkCreation

\* the loop of lines 543-583 without line 581: the landmark is put into the
\* set but not marked as currently tracked
RECURSIVE UpdateLoopWithoutMark(_, _)
UpdateLoopWithoutMark(acc, i) ==
  IF i > Len(acc.points) THEN acc
  ELSE
    LET point == acc.points[i]
        landmark == IF point.landmark = 0 THEN Len(acc.landmarks) + 1 ELSE point.landmark
        landmarks == IF point.landmark = 0
                     THEN Append(acc.landmarks, [near |-> FALSE, is_currently_tracked |-> FALSE, updates |-> 0])
                     ELSE acc.landmarks
    IN IF ~ IsMature(point) THEN UpdateLoopWithoutMark(acc, i + 1)
       ELSE UpdateLoopWithoutMark(
              [points            |-> [acc.points EXCEPT ![i].landmark = landmark],
               landmarks         |-> [landmarks EXCEPT ![landmark].near = point.near,
                                                      ![landmark].updates = @ + 1],
               currently_tracked |-> Append(acc.currently_tracked, landmark),
               created           |-> IF point.landmark = 0 THEN acc.created + 1 ELSE acc.created],
              i + 1)

\* acc is [points, landmarks, currently_tracked, created]; a landmark is
\* [near, is_currently_tracked, updates], updates counting the calls of
\* Landmark::update
RECURSIVE UpdateLoop(_, _)
UpdateLoop(acc, i) ==
  IF i > Len(acc.points) THEN acc
  ELSE
    LET point == acc.points[i]
        \* WorldMap::createLandmark: identifiers in creation order
        landmark == IF point.landmark = 0 THEN Len(acc.landmarks) + 1 ELSE point.landmark
        landmarks == IF point.landmark = 0
                     THEN Append(acc.landmarks, [near |-> FALSE, is_currently_tracked |-> FALSE, updates |-> 0])
                     ELSE acc.landmarks
    IN IF ~ IsMature(point) THEN UpdateLoop(acc, i + 1)
       ELSE UpdateLoop(
              [points            |-> [acc.points EXCEPT ![i].landmark = landmark],
               landmarks         |-> [landmarks EXCEPT ![landmark] =
                                        [near |-> point.near, is_currently_tracked |-> TRUE,
                                         updates |-> landmarks[landmark].updates + 1]],
               currently_tracked |-> Append(acc.currently_tracked, landmark),
               created           |-> IF point.landmark = 0 THEN acc.created + 1 ELSE acc.created],
              i + 1)

updateLandmarks(points, landmarks, currently_tracked) ==
  UpdateLoop([points |-> points, landmarks |-> landmarks,
              currently_tracked |-> currently_tracked, created |-> 0], 1)

\* --------------------------------------------------------- _addNewFramepoints
\* the loop of lines 436-451 without line 447: the cells are not freed
RECURSIVE AddLoopKeepingCells(_, _)
AddLoopKeepingCells(acc, k) ==
  IF k > NumberOfCells THEN acc
  ELSE
    LET cell == RowMajor[k]
    IN IF acc.grid[cell].id = 0 THEN AddLoopKeepingCells(acc, k + 1)
       ELSE AddLoopKeepingCells(
              [points          |-> IF acc.index_point_new < Len(acc.points)
                                   THEN [acc.points EXCEPT ![acc.index_point_new + 1] = acc.grid[cell]]
                                   ELSE acc.points,
               grid            |-> acc.grid,
               index_point_new |-> acc.index_point_new + 1,
               out_of_range    |-> acc.out_of_range \/ acc.index_point_new >= Len(acc.points)],
              k + 1)

\* acc is [points, grid, index_point_new, out_of_range]; index_point_new
\* counts from 0 as in the source
RECURSIVE AddLoop(_, _)
AddLoop(acc, k) ==
  IF k > NumberOfCells THEN acc
  ELSE
    LET cell == RowMajor[k]
    IN IF acc.grid[cell].id = 0 THEN AddLoop(acc, k + 1)
       ELSE AddLoop(
              [points          |-> IF acc.index_point_new < Len(acc.points)
                                   THEN [acc.points EXCEPT ![acc.index_point_new + 1] = acc.grid[cell]]
                                   ELSE acc.points,
               grid            |-> [acc.grid EXCEPT ![cell] = NoPoint],
               index_point_new |-> acc.index_point_new + 1,
               out_of_range    |-> acc.out_of_range \/ acc.index_point_new >= Len(acc.points)],
              k + 1)

\* lines 426-454 without the resize of line 429: no space is made for the
\* new points
addNewFramepointsWithoutResize(points, grid, number_of_potential_points, number_of_lost_points_recovered, number_of_tracked_points) ==
  LET result == AddLoop([points |-> points,
                         grid |-> grid,
                         index_point_new |-> number_of_tracked_points,
                         out_of_range |-> FALSE], 1)
  IN [points       |-> Resize(result.points, result.index_point_new),
      grid         |-> result.grid,
      out_of_range |-> result.out_of_range]

\* lines 426-454 with index_point_new starting at 0 in line 435: the new
\* points are written over the tracked ones
addNewFramepointsFromStart(points, grid, number_of_potential_points, number_of_lost_points_recovered, number_of_tracked_points) ==
  LET result == AddLoop([points |-> Resize(points, number_of_potential_points
                                                   + number_of_lost_points_recovered),
                         grid |-> grid,
                         index_point_new |-> 0,
                         out_of_range |-> FALSE], 1)
  IN [points       |-> Resize(result.points, result.index_point_new),
      grid         |-> result.grid,
      out_of_range |-> result.out_of_range]

\* _addNewFramepoints(frame_)
addNewFramepoints(points, grid, number_of_potential_points, number_of_lost_points_recovered, number_of_tracked_points) ==
  LET result == AddLoop([points |-> Resize(points, number_of_potential_points
                                                   + number_of_lost_points_recovered),
                         grid |-> grid,
                         index_point_new |-> number_of_tracked_points,
                         out_of_range |-> FALSE], 1)
  IN [points       |-> Resize(result.points, result.index_point_new),
      grid         |-> result.grid,
      out_of_range |-> result.out_of_range]

\* FramePointGenerator::clearFramepointsInImage()
clearFramepointsInImage(grid) == EmptyGrid

\* FramePointGenerator::numberOfAvailablePoints()
numberOfAvailablePoints(grid) == Cardinality({cell \in Cells : grid[cell].id # 0})

\* ------------------------------------------------------- constructed state
NoFrame == [id |-> 0, status |-> Localizing, robot_to_world |-> Identity,
            points |-> << >>, previous |-> 0]

NoCall ==
  [path |-> "none", entry_status |-> Localizing, frame |-> 0, generated |-> EmptyGrid,
   associated |-> FALSE, tracked_points |-> << >>, grid_after_tracking |-> EmptyGrid,
   optimized |-> FALSE, acceptance_tested |-> FALSE, motion |-> Identity,
   number_of_good_points |-> 0, pruned |-> FALSE, pruned_points |-> << >>,
   recovered_points |-> << >>, promoted |-> FALSE, landmarks_created |-> 0,
   appended |-> FALSE, out_of_range |-> FALSE, prior |-> Identity,
   landmarks_at_entry |-> 0,
   steps |-> << >>, tracked_after_association |-> 0, tracked_after_pruning |-> 0,
   previous_path |-> "none", loss_frame |-> 0,
   entry_motion |-> Identity, entry_robot_to_world |-> Identity,
   entry_has_odometry |-> FALSE, entry_odometry |-> Identity,
   entry_previous_odometry |-> Identity, seeded_robot_to_world |-> Identity,
   entry_previous_points |-> << >>, entry_projections |-> << >>,
   entry_landmarks |-> << >>]

\* a tracker constructed with the status Tracking
ConstructedTracking(minimum_track_length, previous_odometry) ==
  /\ tracker = [status |-> Tracking, status_previous |-> Localizing,
                number_of_tracked_points |-> 0, number_of_lost_points |-> 0,
                number_of_lost_points_recovered |-> 0, number_of_potential_points |-> 0,
                number_of_tracked_landmarks_close |-> 0, number_of_tracked_landmarks_far |-> 0,
                motion_previous_to_current_robot |-> Identity,
                has_odometry |-> FALSE, odometry |-> Identity,
                previous_odometry |-> previous_odometry,
                lost_points |-> << >>, projected_image_coordinates_left |-> << >>,
                pixel_distance_tracking_threshold |-> pixel_distance_tracking_threshold_maximum,
                aborted |-> FALSE]
  /\ context = [robot_to_world |-> Identity, currently_tracked_landmarks |-> << >>,
                landmarks |-> << >>, current_frame |-> NoFrame, previous_frame |-> NoFrame,
                minimum_track_length_for_landmark_creation |-> minimum_track_length]
  /\ generator = [framepoints_in_image |-> EmptyGrid]
  /\ pose_optimizer = [runs |-> 0, weight |-> [nan |-> FALSE, num |-> 1, den |-> 1],
                       flags |-> << >>, number_of_inliers |-> 0, robot_to_world |-> Identity]
  /\ last = NoCall

\* the state after construction and setup() for a run with the given minimum
\* track length; _previous_odometry is not initialized by the constructor
Constructed(minimum_track_length, previous_odometry) ==
  /\ tracker = [status |-> Localizing, status_previous |-> Localizing,
                number_of_tracked_points |-> 0, number_of_lost_points |-> 0,
                number_of_lost_points_recovered |-> 0, number_of_potential_points |-> 0,
                number_of_tracked_landmarks_close |-> 0, number_of_tracked_landmarks_far |-> 0,
                motion_previous_to_current_robot |-> Identity,
                has_odometry |-> FALSE, odometry |-> Identity,
                previous_odometry |-> previous_odometry,
                lost_points |-> << >>, projected_image_coordinates_left |-> << >>,
                pixel_distance_tracking_threshold |-> pixel_distance_tracking_threshold_maximum,
                aborted |-> FALSE]
  /\ context = [robot_to_world |-> Identity, currently_tracked_landmarks |-> << >>,
                landmarks |-> << >>, current_frame |-> NoFrame, previous_frame |-> NoFrame,
                minimum_track_length_for_landmark_creation |-> minimum_track_length]
  /\ generator = [framepoints_in_image |-> EmptyGrid]
  /\ pose_optimizer = [runs |-> 0, weight |-> [nan |-> FALSE, num |-> 1, den |-> 1],
                       flags |-> << >>, number_of_inliers |-> 0, robot_to_world |-> Identity]
  /\ last = NoCall

Init == Constructed(2, Identity)

\* ------------------------------------------------------ inputs of one call
\* FramePointGenerator::compute(frame): the grid for a layout, which gives
\* for every cell either None or the descriptor and the near flag of its point
None == [present |-> FALSE, descriptor |-> 0, near |-> FALSE]

GeneratedGrid(layout, frame_id) ==
  [cell \in Cells |->
     IF layout[cell].present
     THEN [id |-> frame_id * IdStride + CellIndex(cell[1], cell[2]),
           row |-> cell[1], col |-> cell[2],
           descriptor |-> layout[cell].descriptor, near |-> layout[cell].near,
           previous |-> 0, track_length |-> 1, landmark |-> 0]
     ELSE NoPoint]

\* the projections of the previous points: each point moved by an offset
RawProjections(points, offsets) ==
  IF points = << >> THEN << >>
  ELSE [k \in 1 .. Len(points) |->
          [x |-> points[k].col + offsets[k].dx, y |-> points[k].row + offsets[k].dy]]

\* ------------------------------------------------- compute(): the two ends
\* lines 50-54 without the clear(): the set keeps its landmarks
ResetLandmarksKeepingSet(landmarks, currently_tracked) ==
  [landmarks |->
     IF landmarks = << >> THEN << >>
     ELSE [k \in 1 .. Len(landmarks) |->
             IF \E j \in 1 .. Len(currently_tracked) : currently_tracked[j] = k
             THEN [landmarks[k] EXCEPT !.is_currently_tracked = FALSE]
             ELSE landmarks[k]],
   currently_tracked |-> currently_tracked]

\* lines 50-54: the currently tracked landmarks are unmarked and the set is
\* cleared; [landmarks, currently_tracked]
ResetLandmarks(landmarks, currently_tracked) ==
  [landmarks |->
     IF landmarks = << >> THEN << >>
     ELSE [k \in 1 .. Len(landmarks) |->
             IF \E j \in 1 .. Len(currently_tracked) : currently_tracked[j] = k
             THEN [landmarks[k] EXCEPT !.is_currently_tracked = FALSE]
             ELSE landmarks[k]],
   currently_tracked |-> << >>]

\* lines 56-64 without line 63: the current odometry is not recorded
MotionPriorKeepingPrevious(trk, has_frame) ==
  IF trk.has_odometry
  THEN LET previous_odometry == IF ~ has_frame THEN trk.odometry ELSE trk.previous_odometry
       IN [motion |-> Compose(Inverse(previous_odometry), trk.odometry),
           previous_odometry |-> previous_odometry]
  ELSE [motion |-> trk.motion_previous_to_current_robot,
        previous_odometry |-> trk.previous_odometry]

\* lines 56-64: the motion prior; [motion, previous_odometry]
MotionPrior(trk, has_frame) ==
  IF trk.has_odometry
  THEN LET previous_odometry == IF ~ has_frame THEN trk.odometry ELSE trk.previous_odometry
       IN [motion |-> Compose(Inverse(previous_odometry), trk.odometry),
           previous_odometry |-> trk.odometry]
  ELSE [motion |-> trk.motion_previous_to_current_robot,
        previous_odometry |-> trk.previous_odometry]

\* lines 66-69: the constant velocity motion model
PredictRobotToWorld(robot_to_world, motion, has_frame) ==
  IF has_frame THEN Compose(robot_to_world, motion) ELSE robot_to_world

\* the motion from the previous frame to the optimizer's pose
ResultingMotion(previous_robot_to_world, optimized_robot_to_world) ==
  Compose(Inverse(previous_robot_to_world), optimized_robot_to_world)

\* lines 110-122 and 186-196: [robot_to_world, motion] of the current frame
AcceptMotion(motion, optimized_robot_to_world, previous_robot_to_world) ==
  IF MotionSignificant(motion)
  THEN [robot_to_world |-> optimized_robot_to_world, motion |-> motion]
  ELSE [robot_to_world |-> previous_robot_to_world, motion |-> Identity]

\* --------------------------------------------------------------- compute()
\* lines 47-76: reset, motion prior, new frame, generated framepoints
Prepared(layout) ==
  LET has_frame == context.current_frame.id # 0
      prior     == MotionPrior(tracker, has_frame)
      frame_id  == context.current_frame.id + 1
      grid      == GeneratedGrid(layout, frame_id)
  IN [has_frame      |-> has_frame,
      motion         |-> prior.motion,
      previous_odometry |-> prior.previous_odometry,
      robot_to_world |-> PredictRobotToWorld(context.robot_to_world, prior.motion, has_frame),
      landmarks      |-> ResetLandmarks(context.landmarks,
                                        context.currently_tracked_landmarks).landmarks,
      currently_tracked |-> ResetLandmarks(context.landmarks,
                                           context.currently_tracked_landmarks).currently_tracked,
      frame_id       |-> frame_id,
      previous_frame |-> context.current_frame,
      grid           |-> grid,
      number_of_potential_points |-> numberOfAvailablePoints(grid)]

\* lines 78-83: the association with the previous frame, if there is one
Associated(pre, offsets) ==
  IF pre.has_frame
  THEN trackFramepoints(pre.previous_frame.points,
                        RawProjections(pre.previous_frame.points, offsets),
                        pre.grid, tracker.status_previous, pre.number_of_potential_points)
  ELSE [previous_points |-> pre.previous_frame.points,
        projections     |-> tracker.projected_image_coordinates_left,
        threshold       |-> tracker.pixel_distance_tracking_threshold,
        grid            |-> pre.grid,
        points          |-> << >>,
        lost_points     |-> tracker.lost_points,
        steps           |-> << >>,
        number_of_tracked_points          |-> 0,
        number_of_lost_points             |-> 0,
        number_of_tracked_landmarks_close |-> tracker.number_of_tracked_landmarks_close,
        number_of_tracked_landmarks_far   |-> tracker.number_of_tracked_landmarks_far]

\* the tracker, the new frame and the call record when the switch on the
\* status is reached, tr being the outcome of the association and raw the
\* projections of the previous frame's framepoints
AtSwitch(pre, tr, raw) ==
     [tracker |->
        [tracker EXCEPT
           !.number_of_tracked_points = tr.number_of_tracked_points,
           !.number_of_lost_points = tr.number_of_lost_points,
           !.number_of_lost_points_recovered = 0,
           !.number_of_potential_points = pre.number_of_potential_points,
           !.number_of_tracked_landmarks_close = tr.number_of_tracked_landmarks_close,
           !.number_of_tracked_landmarks_far = tr.number_of_tracked_landmarks_far,
           !.motion_previous_to_current_robot = pre.motion,
           !.previous_odometry = pre.previous_odometry,
           !.lost_points = tr.lost_points,
           !.projected_image_coordinates_left = tr.projections,
           !.pixel_distance_tracking_threshold = tr.threshold],
      frame |->
        [id |-> pre.frame_id, status |-> Localizing, robot_to_world |-> pre.robot_to_world,
         points |-> tr.points, previous |-> pre.previous_frame.id],
      previous_frame |-> [pre.previous_frame EXCEPT !.points = tr.previous_points],
      last |->
        [NoCall EXCEPT
           !.entry_status = tracker.status,
           !.frame = pre.frame_id,
           !.generated = pre.grid,
           !.associated = pre.has_frame,
           !.tracked_points = tr.points,
           !.grid_after_tracking = tr.grid,
           !.prior = pre.motion,
           !.landmarks_at_entry = Len(context.landmarks),
           !.steps = tr.steps,
           !.tracked_after_association = tr.number_of_tracked_points,
           !.previous_path = last.path,
           !.loss_frame = last.loss_frame,
           !.entry_motion = tracker.motion_previous_to_current_robot,
           !.entry_robot_to_world = context.robot_to_world,
           !.entry_has_odometry = tracker.has_odometry,
           !.entry_odometry = tracker.odometry,
           !.entry_previous_odometry = tracker.previous_odometry,
           !.seeded_robot_to_world = pre.robot_to_world,
           !.entry_previous_points = pre.previous_frame.points,
           !.entry_projections = IF pre.has_frame THEN raw ELSE << >>,
           !.entry_landmarks = context.landmarks]]

\* the state a call leaves behind
Outcome(trk, robot_to_world, currently_tracked, landmarks, frame, previous_frame, grid, optimizer, call) ==
  [tracker        |-> trk,
   context        |-> [robot_to_world |-> robot_to_world,
                       currently_tracked_landmarks |-> currently_tracked,
                       landmarks |-> landmarks,
                       current_frame |-> frame,
                       previous_frame |-> previous_frame,
                       minimum_track_length_for_landmark_creation |->
                         context.minimum_track_length_for_landmark_creation],
   generator      |-> [framepoints_in_image |-> grid],
   pose_optimizer |-> optimizer,
   last           |-> call]

\* lines 97-99 and 154-156: init, setWeightFramepoint, converge
Converged(weight, flags, robot_to_world) ==
  [runs |-> pose_optimizer.runs + 1, weight |-> weight, flags |-> flags,
   number_of_inliers |-> CountInliers(flags), robot_to_world |-> robot_to_world]

\* lines 227-232 with the status the call was entered with in line 232
FinishedWithEntryStatus(at, trk, robot_to_world, upd, optimizer, call) ==
  LET added == addNewFramepoints(upd.points, at.last.grid_after_tracking,
                                 trk.number_of_potential_points,
                                 trk.number_of_lost_points_recovered,
                                 trk.number_of_tracked_points)
  IN Outcome(trk, robot_to_world, upd.currently_tracked, upd.landmarks,
             [at.frame EXCEPT !.status = tracker.status, !.robot_to_world = robot_to_world,
                              !.points = added.points],
             at.previous_frame, added.grid, optimizer,
             [call EXCEPT !.appended = TRUE, !.out_of_range = added.out_of_range,
                          !.landmarks_created = upd.created])

\* lines 227-232: the new framepoints and the frame's status
Finished(at, trk, robot_to_world, upd, optimizer, call) ==
  LET added == addNewFramepoints(upd.points, at.last.grid_after_tracking,
                                 trk.number_of_potential_points,
                                 trk.number_of_lost_points_recovered,
                                 trk.number_of_tracked_points)
  IN Outcome(trk, robot_to_world, upd.currently_tracked, upd.landmarks,
             [at.frame EXCEPT !.status = trk.status, !.robot_to_world = robot_to_world,
                              !.points = added.points],
             at.previous_frame, added.grid, optimizer,
             [call EXCEPT !.appended = TRUE, !.out_of_range = added.out_of_range,
                          !.landmarks_created = upd.created])

\* lines 89-143: case Frame::Localizing
LocalizingBranch(pre, at, flags, delta) ==
  LET optimized_pose == Compose(pre.previous_frame.robot_to_world, delta)
      optimizer == IF pre.has_frame
                   THEN Converged([nan |-> FALSE, num |-> 1, den |-> 1], flags, optimized_pose)
                   ELSE pose_optimizer
      acceptable == pre.has_frame /\ PoseAcceptable(optimizer.number_of_inliers)
      motion == ResultingMotion(pre.previous_frame.robot_to_world, optimized_pose)
      accepted == AcceptMotion(motion, optimized_pose, pre.previous_frame.robot_to_world)
      robot_to_world == IF acceptable THEN accepted.robot_to_world ELSE pre.robot_to_world
      number_of_good_points == countPoints(at.frame.points, minimumTrackLengthForLandmarkCreation)
      switch == CanSwitchState(number_of_good_points)
      upd == IF switch
             THEN updateLandmarks(at.frame.points, pre.landmarks, pre.currently_tracked)
             ELSE [points |-> at.frame.points, landmarks |-> pre.landmarks,
                   currently_tracked |-> pre.currently_tracked, created |-> 0]
      trk == [at.tracker EXCEPT
                !.motion_previous_to_current_robot =
                   IF acceptable THEN accepted.motion ELSE pre.motion,
                !.status_previous = IF switch THEN tracker.status ELSE tracker.status_previous,
                !.status = IF switch THEN Tracking ELSE tracker.status]
  IN Finished(at, trk, robot_to_world, upd, optimizer,
              [at.last EXCEPT !.path = IF pre.has_frame THEN "localizing" ELSE "first",
                              !.optimized = pre.has_frame,
                              !.acceptance_tested = acceptable,
                              !.motion = IF acceptable THEN motion ELSE Identity,
                              !.number_of_good_points = number_of_good_points,
                              !.promoted = switch])

\* line 150 with assertions compiled in, or a null previous frame at line
\* 163: the call does not return
Aborted(pre, at, path) ==
     Outcome([at.tracker EXCEPT !.aborted = TRUE], pre.robot_to_world,
             pre.currently_tracked, pre.landmarks,
             at.frame, at.previous_frame, at.last.grid_after_tracking, pose_optimizer,
             [at.last EXCEPT !.path = path])

\* lines 168-184 without the rollback of lines 179-180: the frame keeps the
\* pose it was created with and the motion keeps the optimizer's
LoseTrackKeepingPose(at, pre, optimizer, call) ==
  Outcome([at.tracker EXCEPT !.status_previous = Localizing, !.status = Localizing,
                             !.motion_previous_to_current_robot = call.motion],
          at.frame.robot_to_world, << >>, pre.landmarks,
          [at.frame EXCEPT !.status = Localizing, !.points = << >>],
          at.previous_frame,
          clearFramepointsInImage(at.last.grid_after_tracking),
          optimizer,
          [call EXCEPT !.path = "lost", !.loss_frame = at.frame.id])

\* lines 168-184 without releasePoints() of line 175: the frame keeps the
\* framepoints it tracked
LoseTrackKeepingPoints(at, pre, optimizer, call) ==
  Outcome([at.tracker EXCEPT !.status_previous = Localizing, !.status = Localizing,
                             !.motion_previous_to_current_robot = Identity],
          pre.previous_frame.robot_to_world, << >>, pre.landmarks,
          [at.frame EXCEPT !.status = Localizing,
                           !.robot_to_world = pre.previous_frame.robot_to_world],
          at.previous_frame,
          clearFramepointsInImage(at.last.grid_after_tracking),
          optimizer,
          [call EXCEPT !.path = "lost", !.loss_frame = at.frame.id])

\* lines 168-184 placed after the landmark update of line 214: the
\* framepoints tracked so far are promoted before the track is given up
LoseTrackAfterUpdate(at, pre, optimizer, call) ==
  Outcome([at.tracker EXCEPT !.status_previous = Localizing, !.status = Localizing,
                             !.motion_previous_to_current_robot = Identity],
          pre.previous_frame.robot_to_world, << >>,
          updateLandmarks(at.frame.points, pre.landmarks, pre.currently_tracked).landmarks,
          [at.frame EXCEPT !.status = Localizing, !.points = << >>,
                           !.robot_to_world = pre.previous_frame.robot_to_world],
          at.previous_frame,
          clearFramepointsInImage(at.last.grid_after_tracking),
          optimizer,
          [call EXCEPT !.path = "lost", !.loss_frame = at.frame.id])

\* lines 168-184 without line 172: the previous status is left as it was
LoseTrackKeepingPreviousStatus(at, pre, optimizer, call) ==
  Outcome([at.tracker EXCEPT !.status = Localizing,
                             !.motion_previous_to_current_robot = Identity],
          pre.previous_frame.robot_to_world, << >>, pre.landmarks,
          [at.frame EXCEPT !.status = Localizing, !.points = << >>,
                           !.robot_to_world = pre.previous_frame.robot_to_world],
          at.previous_frame,
          clearFramepointsInImage(at.last.grid_after_tracking),
          optimizer,
          [call EXCEPT !.path = "lost", !.loss_frame = at.frame.id])

\* lines 168-184: not enough inliers; reset state, purge the points, keep
\* the previous solution and return
LoseTrack(at, pre, optimizer, call) ==
  Outcome([at.tracker EXCEPT !.status_previous = Localizing, !.status = Localizing,
                             !.motion_previous_to_current_robot = Identity],
          pre.previous_frame.robot_to_world, << >>, pre.landmarks,
          [at.frame EXCEPT !.status = Localizing, !.points = << >>,
                           !.robot_to_world = pre.previous_frame.robot_to_world],
          at.previous_frame,
          clearFramepointsInImage(at.last.grid_after_tracking),
          optimizer,
          [call EXCEPT !.path = "lost", !.loss_frame = at.frame.id])

\* lines 146-219: case Frame::Tracking
TrackingBranch(pre, at, flags, delta, recovered) ==
  LET weight == WeightFramepoint(at.tracker.number_of_tracked_landmarks_far,
                                 at.tracker.number_of_tracked_landmarks_close,
                                 at.tracker.number_of_tracked_points)
      optimized_pose == Compose(pre.previous_frame.robot_to_world, delta)
      optimizer == Converged(ClampWeight(weight), flags, optimized_pose)
      motion == ResultingMotion(pre.previous_frame.robot_to_world, optimized_pose)
      call == [at.last EXCEPT !.optimized = TRUE, !.motion = motion]
  IN IF TrackLost(optimizer.number_of_inliers)
     THEN LoseTrack(at, pre, optimizer, call)
     ELSE \* lines 186-218
       LET accepted == AcceptMotion(motion, optimized_pose, pre.previous_frame.robot_to_world)
           pruned == pruneFramepoints(at.frame.points, flags).points
           points == recoverPoints(pruned, at.tracker.lost_points, recovered, pre.frame_id)
           upd == updateLandmarks(points, pre.landmarks, pre.currently_tracked)
           trk == [at.tracker EXCEPT
                     !.motion_previous_to_current_robot = accepted.motion,
                     !.number_of_tracked_points = Len(points),
                     !.number_of_lost_points_recovered = Len(points) - Len(pruned),
                     !.status_previous = tracker.status,
                     !.status = Tracking]
       IN Finished(at, trk, accepted.robot_to_world, upd, optimizer,
                   [call EXCEPT !.path = "tracking", !.acceptance_tested = TRUE,
                                !.pruned = TRUE, !.pruned_points = pruned,
                                !.tracked_after_pruning =
                                   pruneFramepoints(at.frame.points, flags).number_of_tracked_points,
                                !.recovered_points = SubSeq(points, Len(pruned) + 1, Len(points)),
                                !.promoted = TRUE])

\* pattern repeated over the indices 1 .. n
Cyclic(pattern, n) ==
  IF n = 0 THEN << >> ELSE [k \in 1 .. n |-> pattern[((k - 1) % Len(pattern)) + 1]]

\* lines 86-219: the switch on the status, for the inputs in
Dispatch(in, pre, at) ==
  IF tracker.status = Localizing
  THEN LocalizingBranch(pre, at, Cyclic(in.flags, Len(at.frame.points)),
                        IF pre.has_frame THEN in.delta ELSE Identity)
  ELSE IF ~ pre.has_frame
  THEN Aborted(pre, at, "null_previous")
  ELSE IF /\ in.assertions
          /\ ~ WeightAssertion(WeightFramepoint(at.tracker.number_of_tracked_landmarks_far,
                                                at.tracker.number_of_tracked_landmarks_close,
                                                at.tracker.number_of_tracked_points))
  THEN Aborted(pre, at, "assertion")
  ELSE TrackingBranch(pre, at, Cyclic(in.flags, Len(at.frame.points)), in.delta,
                      IF in.recover THEN 1 .. at.tracker.number_of_lost_points ELSE {})

\* lines 78-219 after the preparation pre
Switch(in, pre) ==
  Dispatch(in, pre,
           AtSwitch(pre,
                    Associated(pre, Cyclic(in.offsets, Len(context.current_frame.points))),
                    RawProjections(context.current_frame.points,
                                   Cyclic(in.offsets, Len(context.current_frame.points)))))

\* lines 47-232: the state one call leaves behind
Call(in) == Switch(in, Prepared(in.layout))

\* the inputs of the family F that the call can read: the first call reads
\* the generator only (lines 79, 93), the Localizing case neither recovers
\* points nor asserts
Inputs(F) ==
  LET One(S) == {CHOOSE x \in S : TRUE}
  IN IF context.current_frame.id = 0
     THEN [layout : F.layouts, offsets : One(F.offsets), flags : One(F.flags),
           delta : {Identity}, recover : {FALSE}, assertions : {FALSE}]
     ELSE IF tracker.status = Localizing
     THEN [layout : F.layouts, offsets : F.offsets, flags : F.flags,
           delta : F.deltas, recover : {FALSE}, assertions : {FALSE}]
     ELSE [layout : F.layouts, offsets : F.offsets, flags : F.flags,
           delta : F.deltas, recover : F.recover, assertions : F.assertions]

\* one call of compute() with inputs of the family F: the generator's
\* layouts, the offsets of the projections, the optimizer's verdicts and
\* poses, whether the lost points are recovered, and whether assertions
\* are compiled in
compute(F) ==
  /\ ~ tracker.aborted
  /\ context.current_frame.id < F.frames
  /\ \E in \in Inputs(F) :
       LET out == Call(in)
       IN /\ tracker' = out.tracker
          /\ context' = out.context
          /\ generator' = out.generator
          /\ pose_optimizer' = out.pose_optimizer
          /\ last' = out.last

\* BaseTracker::setOdometry(odometry_): the caller hands in the odometry
\* pose of the next image
setOdometry(odometries) ==
  /\ ~ tracker.aborted
  /\ \E odometry \in odometries :
       tracker' = [tracker EXCEPT !.odometry = odometry, !.has_odometry = TRUE]
  /\ UNCHANGED << context, generator, pose_optimizer, last >>

\* ------------------------------------------------------------ specifications
Offset(dx, dy) == [dx |-> dx, dy |-> dy]

\* the layout with points in the first size cells of the row-major order
PrefixLayout(size, descriptors, nears) ==
  [cell \in Cells |->
     IF CellIndex(cell[1], cell[2]) <= size
     THEN [present |-> TRUE,
           descriptor |-> descriptors[((CellIndex(cell[1], cell[2]) - 1) % Len(descriptors)) + 1],
           near |-> nears[((CellIndex(cell[1], cell[2]) - 1) % Len(nears)) + 1]]
     ELSE None]

\* association, pruning and recovery vary; the optimizer's pose is the
\* previous pose
MainInputs ==
  [layouts    |-> {PrefixLayout(size, << 0 >>, << FALSE >>) :
                     size \in {0, MaxGenerated - 1, MaxGenerated}},
   offsets    |-> {<< Offset(0, 0) >>, << Offset(3, 0), Offset(0, 0) >>},
   flags      |-> {<< Inlier >>, << Outlier >>, << Skipped, Outlier, Inlier >>,
                   << Outlier, Inlier, Outlier >>},
   deltas     |-> {Identity},
   recover    |-> {FALSE, TRUE},
   assertions |-> {FALSE, TRUE},
   frames     |-> MaxFrames]

\* the optimizer's results vary: poses at, below and above the thresholds
\* of the acceptance test
OptimizerInputs ==
  [layouts    |-> {PrefixLayout(size, << 0 >>, << FALSE >>) :
                     size \in {MaxGenerated - 1, MaxGenerated}},
   offsets    |-> {<< Offset(0, 0) >>},
   flags      |-> {<< Inlier >>, << Outlier >>},
   deltas     |-> {Identity,
                   [flip |-> FALSE, ang |-> delta_angular_threshold,
                    tr |-> delta_translational_threshold],
                   [flip |-> FALSE, ang |-> delta_angular_threshold + 1, tr |-> 0],
                   [flip |-> FALSE, ang |-> 0, tr |-> delta_translational_threshold + 1],
                   [flip |-> TRUE, ang |-> 0, tr |-> 0]},
   recover    |-> {FALSE},
   assertions |-> {TRUE},
   frames     |-> MaxFrames]

\* the optimizer's weight varies: near and far points, frames of different
\* sizes
WeightInputs ==
  [layouts    |-> {PrefixLayout(size, << 0 >>, nears) :
                     size \in {MaxGenerated - 2, MaxGenerated - 1, MaxGenerated},
                     nears \in {<< FALSE >>, << TRUE, FALSE >>, << TRUE >>}},
   offsets    |-> {<< Offset(0, 0) >>},
   flags      |-> {<< Inlier >>, << Outlier >>},
   deltas     |-> {Identity},
   recover    |-> {FALSE},
   assertions |-> {TRUE},
   frames     |-> MaxFrames]

\* runs with different minimum track lengths, long enough for a track loss
\* and the promotion after it; the projections are all inside or all
\* outside the image
PromotionInputs ==
  [layouts    |-> {PrefixLayout(size, << 0 >>, << FALSE >>) :
                     size \in {MaxGenerated - 1, MaxGenerated}},
   offsets    |-> {<< Offset(0, 0) >>, << Offset(3, 0) >>},
   flags      |-> {<< Inlier >>, << Outlier >>},
   deltas     |-> {Identity},
   recover    |-> {FALSE},
   assertions |-> {FALSE},
   frames     |-> MaxFrames + 3]

\* the minimum track lengths of the runs of SpecPromotion
TrackLengths == {2, 3}

\* the optimizer leaves a motion or none; the caller may hand in odometry
OdometryInputs ==
  [layouts    |-> {PrefixLayout(MaxGenerated, << 0 >>, << FALSE >>)},
   offsets    |-> {<< Offset(0, 0) >>},
   flags      |-> {<< Inlier >>},
   deltas     |-> {Identity, [flip |-> FALSE, ang |-> delta_angular_threshold + 1, tr |-> 0]},
   recover    |-> {FALSE},
   assertions |-> {TRUE},
   frames     |-> MaxFrames]

\* the association varies: descriptors that match or not, projections on
\* the point itself, displaced along the diagonal, displaced to the lower
\* border, and outside the image
AssociationInputs ==
  [layouts    |-> {PrefixLayout(size, descriptors, << FALSE >>) :
                     size \in {MaxGenerated - 1, MaxGenerated},
                     descriptors \in {<< 0 >>, << 0, 1 >>}},
   offsets    |-> {<< Offset(0, 0) >>, << Offset(1, 1) >>, << Offset(3, 0), Offset(-1, 2) >>},
   flags      |-> {<< Inlier >>},
   deltas     |-> {Identity},
   recover    |-> {FALSE},
   assertions |-> {FALSE},
   frames     |-> MaxFrames]

\* odometry poses: the start, a rotation of 0.1 rad about z, and a pose
\* turned over and moved
Odometries ==
  {Identity, [flip |-> FALSE, ang |-> 100, tr |-> 0], [flip |-> TRUE, ang |-> 0, tr |-> 3]}

\* what _previous_odometry may hold before it is first assigned
Uninitialized == {Identity, [flip |-> FALSE, ang |-> 7, tr |-> 7]}

Next == compute(MainInputs)

Spec == Init /\ [][Next]_vars

NextOptimizer == compute(OptimizerInputs)

SpecOptimizer == Init /\ [][NextOptimizer]_vars

NextWeight == compute(WeightInputs)

SpecWeight == Init /\ [][NextWeight]_vars

NextAssociation == compute(AssociationInputs)

SpecAssociation == Init /\ [][NextAssociation]_vars

InitOdometry == \E previous_odometry \in Uninitialized : Constructed(2, previous_odometry)

NextOdometry ==
  \/ compute(OdometryInputs)
  \/ setOdometry(Odometries)

SpecOdometry == InitOdometry /\ [][NextOdometry]_vars

InitPromotion == \E minimum_track_length \in TrackLengths : Constructed(minimum_track_length, Identity)

NextPromotion == compute(PromotionInputs)

SpecPromotion == InitPromotion /\ [][NextPromotion]_vars

\* ------------------------------------------------------------------ claims
\* the last call of compute() returned to its caller
Returned == last.path \in {"first", "localizing", "lost", "tracking"}

\* every cell of the generator's grid is empty
GridEmpty == \A cell \in Cells : generator.framepoints_in_image[cell] = NoPoint

\* the last call ran the Tracking branch up to the optimizer, which reported
\* fewer inliers than minimum_number_of_landmarks_to_track
TrackWasLost ==
  /\ last.entry_status = Tracking
  /\ last.optimized
  /\ pose_optimizer.number_of_inliers < minimum_number_of_landmarks_to_track

\* C1: when the Tracking branch runs and the optimizer reports fewer inliers
\* than minimum_number_of_landmarks_to_track, then on return the tracker and
\* the current frame are Localizing, the frame holds no framepoints, the grid
\* is empty, the currently tracked set is empty, the frame's pose and the
\* world map's pose are the previous frame's pose, the motion is the
\* identity, and no landmark was promoted and no framepoint appended
C1_TrackLossResets ==
  TrackWasLost =>
    /\ Returned
    /\ tracker.status = Localizing
    /\ context.current_frame.status = Localizing
    /\ context.current_frame.points = << >>
    /\ GridEmpty
    /\ context.currently_tracked_landmarks = << >>
    /\ context.current_frame.robot_to_world = context.previous_frame.robot_to_world
    /\ context.robot_to_world = context.previous_frame.robot_to_world
    /\ tracker.motion_previous_to_current_robot = Identity
    /\ ~ last.promoted
    /\ Len(context.landmarks) = last.landmarks_at_entry
    /\ ~ last.appended

\* C1: a track loss on a frame with tracked points, with generated points
\* left in the grid and with an optimizer pose away from the previous pose
C1_Witness ==
  /\ TrackWasLost
  /\ tracker.status = Localizing
  /\ last.tracked_points # << >>
  /\ \E cell \in Cells : last.grid_after_tracking[cell] # NoPoint
  /\ last.motion # Identity
  /\ context.previous_frame.robot_to_world # Identity

\* C2: a compute() that starts with status Tracking returns with status
\* Localizing iff the optimizer's inliers are fewer than
\* minimum_number_of_landmarks_to_track; with as many or more it returns
\* with status Tracking
C2_TrackingExit ==
  (last.entry_status = Tracking /\ Returned) =>
    /\ tracker.status = Localizing
         <=> pose_optimizer.number_of_inliers < minimum_number_of_landmarks_to_track
    /\ pose_optimizer.number_of_inliers >= minimum_number_of_landmarks_to_track
         => tracker.status = Tracking

\* C2: a Tracking frame with exactly minimum_number_of_landmarks_to_track
\* inliers among several tracked points, which stays Tracking
C2_Witness ==
  /\ last.entry_status = Tracking
  /\ Returned
  /\ pose_optimizer.number_of_inliers = minimum_number_of_landmarks_to_track
  /\ Len(last.tracked_points) > pose_optimizer.number_of_inliers
  /\ tracker.status = Tracking

\* the framepoints the frame held at line 130 with a track length of at
\* least minimumTrackLengthForLandmarkCreation
GoodPoints ==
  Cardinality({k \in 1 .. Len(last.tracked_points) :
                 last.tracked_points[k].track_length >= minimumTrackLengthForLandmarkCreation})

\* C3 as stated: a compute() that starts with status Localizing returns with
\* status Tracking iff the frame has a previous frame, the optimization was
\* successful (inliers > 2 x minimum_number_of_landmarks_to_track) and the
\* good points exceed minimum_number_of_landmarks_to_track
C3_AsStated ==
  (last.entry_status = Localizing /\ Returned) =>
    (tracker.status = Tracking
       <=> /\ context.current_frame.previous # 0
           /\ pose_optimizer.number_of_inliers > 2 * minimum_number_of_landmarks_to_track
           /\ GoodPoints > minimum_number_of_landmarks_to_track)

\* C3 amended: a compute() that starts with status Localizing returns with
\* status Tracking iff the good points exceed
\* minimum_number_of_landmarks_to_track, which needs a previous frame but not
\* a successful optimization; otherwise the status stays Localizing
C3_LocalizingExit ==
  (last.entry_status = Localizing /\ Returned) =>
    /\ tracker.status = Tracking <=> GoodPoints > minimum_number_of_landmarks_to_track
    /\ tracker.status = Tracking => context.current_frame.previous # 0
    /\ tracker.status # Tracking => tracker.status = Localizing

\* C3: a Localizing frame with a previous frame whose optimization was not
\* successful and which switches to Tracking on its good points
C3_Witness ==
  /\ last.entry_status = Localizing
  /\ Returned
  /\ context.current_frame.previous # 0
  /\ last.optimized
  /\ pose_optimizer.number_of_inliers <= 2 * minimum_number_of_landmarks_to_track
  /\ GoodPoints > minimum_number_of_landmarks_to_track
  /\ tracker.status = Tracking

\* C4: after every compute() that returns, on whichever path, every cell of
\* the generator's grid is empty
C4_GridEmptyOnReturn == Returned => GridEmpty

\* C4: a Tracking frame returns after tracking consumed some generated points
\* and left others in the grid for _addNewFramepoints
C4_Witness ==
  /\ last.path = "tracking"
  /\ last.tracked_points # << >>
  /\ \E cell \in Cells : last.grid_after_tracking[cell] # NoPoint
  /\ GridEmpty

\* C5: after every compute(), every landmark of the currently tracked set is
\* referenced by exactly one framepoint of the current frame: no landmark is
\* twice in the set and no two framepoints of the frame share a landmark
C5_TrackedLandmarksUnique ==
  Returned =>
    LET set    == context.currently_tracked_landmarks
        points == context.current_frame.points
    IN /\ \A i, j \in 1 .. Len(set) : set[i] = set[j] => i = j
       /\ \A i \in 1 .. Len(set) :
            Cardinality({k \in 1 .. Len(points) : points[k].landmark = set[i]}) = 1
       /\ \A k, l \in 1 .. Len(points) :
            (points[k].landmark # 0 /\ points[k].landmark = points[l].landmark) => k = l

\* C5: a Tracking frame after a Tracking frame, with tracked and recovered
\* points carrying landmarks
C5_Witness ==
  /\ last.path = "tracking"
  /\ last.entry_status = Tracking
  /\ last.recovered_points # << >>
  /\ Len(last.pruned_points) >= 1
  /\ Len(context.currently_tracked_landmarks) >= 2

\* the framepoint tracked at index k is still in the current frame's vector
Remains(k) ==
  \E j \in 1 .. Len(context.current_frame.points) :
    context.current_frame.points[j].id = last.tracked_points[k].id

\* C6 as stated: after the pruning of the Tracking branch no framepoint with
\* a landmark and a false inlier flag remains in the current frame's vector
C6_AsStated ==
  last.pruned =>
    \A k \in 1 .. Len(last.tracked_points) :
      (last.tracked_points[k].landmark # 0 /\ ~ pose_optimizer.flags[k].inlier)
        => ~ Remains(k)

\* C6 amended: after the pruning of the Tracking branch no framepoint with a
\* landmark, a false inlier flag and an error other than the sentinel -1
\* remains in the current frame's vector
C6_OutliersPruned ==
  last.pruned =>
    \A k \in 1 .. Len(last.tracked_points) :
      (/\ last.tracked_points[k].landmark # 0
       /\ ~ pose_optimizer.flags[k].inlier
       /\ pose_optimizer.flags[k].error # -1)
        => ~ Remains(k)

\* C6: a pruning that drops an outlier with a landmark and keeps a skipped
\* point with a landmark
C6_Witness ==
  /\ last.pruned
  /\ \E k \in 1 .. Len(last.tracked_points) :
       /\ last.tracked_points[k].landmark # 0
       /\ pose_optimizer.flags[k] = Outlier
       /\ ~ Remains(k)
  /\ \E k \in 1 .. Len(last.tracked_points) :
       /\ last.tracked_points[k].landmark # 0
       /\ pose_optimizer.flags[k] = Skipped
       /\ Remains(k)

\* the framepoints the generator produced for the last call
GeneratedPoints == {last.generated[cell] : cell \in {c \in Cells : last.generated[c].id # 0}}

\* C7: on the first compute() of a fresh tracker no association and no pose
\* optimization are run, the status on return is Localizing, no landmark is
\* created, the currently tracked set is empty, and the frame's framepoints
\* are exactly the generated grid points, none with a predecessor
C7_FirstFrame ==
  last.frame = 1 =>
    /\ Returned
    /\ ~ last.associated
    /\ last.tracked_points = << >>
    /\ ~ last.optimized
    /\ pose_optimizer.runs = 0
    /\ tracker.status = Localizing
    /\ context.current_frame.status = Localizing
    /\ context.landmarks = << >>
    /\ context.currently_tracked_landmarks = << >>
    /\ {context.current_frame.points[k] : k \in 1 .. Len(context.current_frame.points)}
         = GeneratedPoints
    /\ Len(context.current_frame.points) = Cardinality(GeneratedPoints)
    /\ \A k \in 1 .. Len(context.current_frame.points) :
         /\ context.current_frame.points[k].previous = 0
         /\ context.current_frame.points[k].landmark = 0

\* C7: a first frame for which the generator produced several framepoints
C7_Witness ==
  /\ last.frame = 1
  /\ context.current_frame.previous = 0
  /\ Cardinality(GeneratedPoints) >= 2
  /\ Len(context.current_frame.points) >= 2

\* C8 as stated: a compute() for which the generator produces no framepoints
\* returns normally, in either starting status, with status Localizing, no
\* landmark created and no inliers
C8_AsStated ==
  (last.frame > 0 /\ GeneratedPoints = {}) =>
    /\ Returned
    /\ tracker.status = Localizing
    /\ Len(context.landmarks) = last.landmarks_at_entry
    /\ last.optimized => pose_optimizer.number_of_inliers = 0

\* the last call ran the acceptance test on the motion: the Tracking branch
\* with enough inliers, or the Localizing branch with a previous frame and a
\* successful optimization
AcceptanceTestRan ==
  /\ Returned
  /\ \/ /\ last.entry_status = Tracking
        /\ pose_optimizer.number_of_inliers >= minimum_number_of_landmarks_to_track
     \/ /\ last.entry_status = Localizing
        /\ context.current_frame.previous # 0
        /\ pose_optimizer.number_of_inliers > 2 * minimum_number_of_landmarks_to_track

\* the motion from the previous frame's pose to the optimizer's pose
OptimizerMotion ==
  Compose(Inverse(context.previous_frame.robot_to_world), pose_optimizer.robot_to_world)

\* the angular delta is above 0.001 rad or the translational above 0.01 m
AboveThresholds ==
  \/ RodriguesNorm(OptimizerMotion) > delta_angular_threshold
  \/ TranslationNorm(OptimizerMotion) > delta_translational_threshold

\* C9: whenever the acceptance test runs, the frame takes the optimizer's
\* pose if the angular delta is above 0.001 rad or the translational delta
\* above 0.01 m, strictly; otherwise, also with a delta exactly at the
\* thresholds, the frame's pose is the previous frame's pose and the motion
\* is the identity
C9_AcceptanceTest ==
  AcceptanceTestRan =>
    /\ AboveThresholds =>
         /\ context.current_frame.robot_to_world = pose_optimizer.robot_to_world
         /\ tracker.motion_previous_to_current_robot = OptimizerMotion
    /\ ~ AboveThresholds =>
         /\ context.current_frame.robot_to_world = context.previous_frame.robot_to_world
         /\ tracker.motion_previous_to_current_robot = Identity
    /\ context.robot_to_world = context.current_frame.robot_to_world

\* C9: an acceptance test of the Tracking branch on a motion exactly at both
\* thresholds, from a previous pose that is not the identity
C9_Witness ==
  /\ AcceptanceTestRan
  /\ last.entry_status = Tracking
  /\ RodriguesNorm(OptimizerMotion) = delta_angular_threshold
  /\ TranslationNorm(OptimizerMotion) = delta_translational_threshold
  /\ context.previous_frame.robot_to_world # Identity
  /\ context.current_frame.robot_to_world # pose_optimizer.robot_to_world

\* the Tracking branch of the last call reached the optimizer with far
\* landmarks only among the tracked points
AllTrackedLandmarksFar ==
  /\ last.entry_status = Tracking
  /\ last.optimized
  /\ tracker.number_of_tracked_landmarks_close = 0
  /\ tracker.number_of_tracked_landmarks_far >= 1

\* the weight the optimizer was given is 0.1
WeightIsLowerBound ==
  ~ pose_optimizer.weight.nan /\ 10 * pose_optimizer.weight.num = pose_optimizer.weight.den

\* C10 as stated: on a Tracking frame whose tracked landmarks are all far the
\* weight given to the optimizer is the lower bound 0.1
C10_AsStated == AllTrackedLandmarksFar => WeightIsLowerBound

\* C10 amended: on a Tracking frame whose tracked landmarks are all far the
\* weight given to the optimizer is the larger of 0.1 and
\* 1 - n_far/n_tracked, where n_tracked counts the tracked framepoints with
\* and without a landmark
C10_WeightAllFar ==
  AllTrackedLandmarksFar =>
    LET n_tracked == Len(last.tracked_points)
        n_far     == tracker.number_of_tracked_landmarks_far
    IN /\ ~ pose_optimizer.weight.nan
       /\ IF 10 * (n_tracked - n_far) < n_tracked
          THEN WeightIsLowerBound
          ELSE pose_optimizer.weight.num * n_tracked
                 = (n_tracked - n_far) * pose_optimizer.weight.den

\* C10: a Tracking frame whose tracked points all carry far landmarks, and
\* the weight is the lower bound
C10_Witness ==
  /\ AllTrackedLandmarksFar
  /\ tracker.number_of_tracked_landmarks_far = Len(last.tracked_points)
  /\ Len(last.tracked_points) >= 2
  /\ WeightIsLowerBound

\* the framepoints whose track reaches back to the first frame of the run,
\* among those the last call associated
TrackedThroughAllFrames ==
  Cardinality({k \in 1 .. Len(last.tracked_points) :
                 last.tracked_points[k].track_length = last.frame})

\* C11: in a run from a fresh tracker with minimum track length L >= 2, after
\* each of the first L-1 calls no landmark exists, the currently tracked set
\* is empty and the status is Localizing; on call L, when more than
\* minimum_number_of_landmarks_to_track framepoints were tracked through all
\* frames, the first landmarks are created (one for each such framepoint),
\* the currently tracked set becomes non-empty and the status becomes
\* Tracking
C11_FirstLandmarks ==
  /\ minimumTrackLengthForLandmarkCreation >= 2
  /\ (last.frame >= 1 /\ last.frame <= minimumTrackLengthForLandmarkCreation - 1) =>
       /\ Returned
       /\ context.landmarks = << >>
       /\ context.currently_tracked_landmarks = << >>
       /\ tracker.status = Localizing
  /\ (/\ last.frame = minimumTrackLengthForLandmarkCreation
      /\ TrackedThroughAllFrames > minimum_number_of_landmarks_to_track) =>
       /\ Returned
       /\ last.entry_status = Localizing
       /\ last.landmarks_at_entry = 0
       /\ last.landmarks_created = TrackedThroughAllFrames
       /\ Len(context.landmarks) = last.landmarks_created
       /\ context.currently_tracked_landmarks # << >>
       /\ tracker.status = Tracking

\* C11: with a minimum track length of 3 the third call creates the first
\* landmarks and switches to Tracking, while the frame also holds a
\* framepoint tracked for two frames only
C11_Witness ==
  /\ minimumTrackLengthForLandmarkCreation = 3
  /\ last.frame = 3
  /\ TrackedThroughAllFrames = 2
  /\ Len(last.tracked_points) = 3
  /\ Len(context.landmarks) = 2
  /\ tracker.status = Tracking

\* the last call ran the Localizing branch on a frame after a track loss
LocalizingAfterLoss ==
  /\ last.loss_frame > 0
  /\ last.frame > last.loss_frame
  /\ last.entry_status = Localizing

\* C12: the frame of a track loss keeps no framepoints, so the next frame
\* associates nothing; on every Localizing frame after the loss the status
\* becomes Tracking exactly when the framepoints with a track length of at
\* least the minimum exceed minimum_number_of_landmarks_to_track, and that
\* is never before frame k + minimum track length for a loss on frame k
C12_ReentryAfterLoss ==
  /\ last.path = "lost" =>
       /\ last.loss_frame = last.frame
       /\ context.current_frame.points = << >>
  /\ LocalizingAfterLoss =>
       /\ Returned
       /\ tracker.status = Tracking <=> GoodPoints > minimum_number_of_landmarks_to_track
       /\ tracker.status # Tracking => tracker.status = Localizing
       /\ last.frame = last.loss_frame + 1 => last.associated /\ last.tracked_points = << >>
       /\ tracker.status = Tracking =>
            last.frame >= last.loss_frame + minimumTrackLengthForLandmarkCreation

\* C12: with a minimum track length of 3, the status is Tracking again on
\* the third frame after the loss, the earliest frame possible
C12_Witness ==
  /\ LocalizingAfterLoss
  /\ minimumTrackLengthForLandmarkCreation = 3
  /\ last.frame = last.loss_frame + 3
  /\ GoodPoints > minimum_number_of_landmarks_to_track
  /\ tracker.status = Tracking

\* C13: with odometry, a compute() sets the motion prior to
\* inverse(previous odometry) * (current odometry), the identity on the very
\* first frame, whatever motion the previous call left, and records the
\* current odometry as previous; without odometry the motion the previous
\* call left is the prior and the previous odometry stays; the world map's
\* pose is advanced by the prior only when a previous frame exists
C13_MotionPrior ==
  last.frame > 0 =>
    /\ last.entry_has_odometry =>
         /\ last.prior = IF last.frame = 1
                         THEN Identity
                         ELSE Compose(Inverse(last.entry_previous_odometry), last.entry_odometry)
         /\ tracker.previous_odometry = last.entry_odometry
    /\ ~ last.entry_has_odometry =>
         /\ last.prior = last.entry_motion
         /\ tracker.previous_odometry = last.entry_previous_odometry
    /\ last.seeded_robot_to_world = IF last.frame = 1
                                    THEN last.entry_robot_to_world
                                    ELSE Compose(last.entry_robot_to_world, last.prior)

\* C13: a frame after the first with odometry that changed since the
\* previous frame, where the previous call left another motion
C13_Witness ==
  /\ last.frame > 1
  /\ last.entry_has_odometry
  /\ last.entry_previous_odometry \in Odometries \ {Identity}
  /\ last.entry_odometry # last.entry_previous_odometry
  /\ last.entry_motion # Identity
  /\ last.prior # last.entry_motion
  /\ last.prior # Identity
  /\ last.seeded_robot_to_world # last.entry_robot_to_world

\* the generated framepoint is in the current frame's vector
InCurrentFrame(point) ==
  \E k \in 1 .. Len(context.current_frame.points) :
    context.current_frame.points[k].id = point.id

\* the generated framepoint went with the track loss: it was still in the
\* grid that clearFramepointsInImage() cleared, or among the tracked
\* framepoints the frame released
DiscardedAtTrackLoss(point) ==
  /\ last.path = "lost"
  /\ \/ last.grid_after_tracking[<<point.row, point.col>>].id = point.id
     \/ \E k \in 1 .. Len(last.tracked_points) : last.tracked_points[k].id = point.id

\* C14 as stated: when compute() returns, every framepoint the generator
\* produced for the frame is in the current frame's vector or was discarded
\* at the track loss; none was taken out of the grid and left in neither
\* place
C14_AsStated ==
  Returned => \A point \in GeneratedPoints : InCurrentFrame(point) \/ DiscardedAtTrackLoss(point)

\* the indices of the framepoints the pruning has to keep: no landmark, or
\* an optimizer error of -1, or an inlier, read at the index the framepoint
\* had before the pruning
ToKeep ==
  {k \in 1 .. Len(last.tracked_points) :
     \/ last.tracked_points[k].landmark = 0
     \/ pose_optimizer.flags[k].error = -1
     \/ pose_optimizer.flags[k].inlier}

\* the j-th smallest index of ToKeep
Kept(j) == CHOOSE k \in ToKeep : Cardinality({m \in ToKeep : m <= k}) = j

\* C15: the pruning keeps framepoint i iff it has no landmark, or its
\* optimizer error is -1, or its inlier flag is true; the kept framepoints
\* are the prefix of the frame's vector in their original order, the vector
\* is resized to their count and the tracked-point counter equals it
C15_PruningKeeps ==
  last.pruned =>
    /\ Len(last.pruned_points) = Cardinality(ToKeep)
    /\ \A j \in 1 .. Len(last.pruned_points) : last.pruned_points[j] = last.tracked_points[Kept(j)]
    /\ last.tracked_after_pruning = Cardinality(ToKeep)
    /\ Len(context.current_frame.points) >= Len(last.pruned_points)
    /\ \A j \in 1 .. Len(last.pruned_points) :
         context.current_frame.points[j].id = last.pruned_points[j].id

\* C15: a pruning that drops a framepoint in front of one it keeps, and
\* keeps an outlier without a landmark
C15_Witness ==
  /\ last.pruned
  /\ \E k, l \in 1 .. Len(last.tracked_points) : k < l /\ k \notin ToKeep /\ l \in ToKeep
  /\ \E k \in ToKeep :
       /\ last.tracked_points[k].landmark = 0
       /\ pose_optimizer.flags[k] = Outlier

\* the stage ended with a candidate: a cell at a pixel distance below the
\* threshold the association used
Found(best) ==
  best.distance >= 0 /\ best.distance < tracker.pixel_distance_tracking_threshold

\* the pixel-flow gate lets the candidate through
GateAccepts(best, previous_point) ==
  (best.row - previous_point.row) * (best.row - previous_point.row)
    + (best.col - previous_point.col) * (best.col - previous_point.col)
  < maximum_flow_pixels_squared

\* the previous framepoint has a successor among the tracked framepoints
HasSuccessor(previous_point) ==
  \E k \in 1 .. Len(last.tracked_points) : last.tracked_points[k].previous = previous_point.id

\* the previous framepoint is in the lost buffer
IsLost(previous_point) ==
  \E k \in 1 .. Len(tracker.lost_points) : tracker.lost_points[k].id = previous_point.id

\* the previous framepoint is not associated in this frame, and lost if it
\* carries a landmark
NotAssociated(step) ==
  /\ ~ step.match.matched
  /\ ~ HasSuccessor(step.previous_point)
  /\ step.previous_point.landmark # 0 => IsLost(step.previous_point)

\* the claim of C16 for one step of the association
StageTwoOnlyWithoutCandidate(step) ==
  /\ step.match.stage2 # NotRun => ~ Found(step.match.stage1)
  /\ (Found(step.match.stage1) /\ ~ GateAccepts(step.match.stage1, step.previous_point))
       => NotAssociated(step)

\* C16 as stated: stage 2 is run only when stage 1 found no match; a match
\* of stage 1 that the pixel-flow gate rejects leaves the previous
\* framepoint unassociated in this frame
C16_AsStated ==
  \A i \in 1 .. Len(last.steps) : StageTwoOnlyWithoutCandidate(last.steps[i])

\* the amended claim of C16 for one step of the association
StageTwoUnlessCommitted(step) ==
  /\ step.match.stage2 # NotRun
       <=> ~ (Found(step.match.stage1) /\ GateAccepts(step.match.stage1, step.previous_point))
  /\ step.match.stage2 = NotRun =>
       /\ step.match.matched /\ step.match.stage = 1
       /\ step.match.row = step.match.stage1.row /\ step.match.col = step.match.stage1.col
  /\ step.match.stage2 # NotRun =>
       /\ step.match.matched
            <=> (Found(step.match.stage2) /\ GateAccepts(step.match.stage2, step.previous_point))
       /\ step.match.matched =>
            /\ step.match.stage = 2
            /\ step.match.row = step.match.stage2.row /\ step.match.col = step.match.stage2.col
  /\ step.match.matched => HasSuccessor(step.previous_point) /\ ~ IsLost(step.previous_point)
  /\ ~ step.match.matched => NotAssociated(step)

\* C16 amended: stage 2 is run exactly when stage 1 committed no match, that
\* is when stage 1 found no candidate or the pixel-flow gate rejected its
\* candidate; a match of stage 1 that passes the gate is committed alone;
\* the candidate of stage 2 is submitted to the gate in turn, and the
\* previous framepoint is unassociated (and lost if it carries a landmark)
\* only when neither stage commits
C16_StageTwo ==
  \A i \in 1 .. Len(last.steps) : StageTwoUnlessCommitted(last.steps[i])

\* C16: a previous framepoint with a landmark whose stage 1 candidate the
\* gate rejects and which stage 2 associates with another cell
C16_Witness ==
  \E i \in 1 .. Len(last.steps) :
    /\ Found(last.steps[i].match.stage1)
    /\ ~ GateAccepts(last.steps[i].match.stage1, last.steps[i].previous_point)
    /\ last.steps[i].match.matched
    /\ last.steps[i].match.stage = 2
    /\ last.steps[i].previous_point.landmark # 0

\* the cells of the search window of the given radius around the projection
WindowCells(projection, radius) ==
  {cell \in Cells : /\ projection.row - radius <= cell[1] /\ cell[1] < projection.row + radius
                    /\ projection.col - radius <= cell[2] /\ cell[2] < projection.col + radius}

\* the Manhattan pixel distance of a framepoint's cell to the projection
Manhattan(point, projection) ==
  (IF point.row < projection.row THEN projection.row - point.row ELSE point.row - projection.row)
  + (IF point.col < projection.col THEN projection.col - point.col ELSE point.col - projection.col)

\* the framepoints a stage may select for the step: in an occupied cell of
\* the window, the descriptor distance below the matching threshold and the
\* pixel distance below the threshold the association used
Eligible(step, window) ==
  {point \in step.candidates :
     /\ << point.row, point.col >> \in window
     /\ DescriptorDistance(step.previous_point.descriptor, point.descriptor) < matchingDistanceTrackingThreshold
     /\ Manhattan(point, step.projection) < tracker.pixel_distance_tracking_threshold}

\* point comes before other in the order of selection: closer to the
\* projection, or as close and not later in the row-major scan
Precedes(point, other, projection) ==
  \/ Manhattan(point, projection) < Manhattan(other, projection)
  \/ /\ Manhattan(point, projection) = Manhattan(other, projection)
     /\ CellIndex(point.row, point.col) <= CellIndex(other.row, other.col)

\* the stage ended with the first of the eligible framepoints, and with
\* none if there is none
Selects(best, eligible, projection) ==
  IF eligible = {} THEN ~ Found(best)
  ELSE /\ Found(best)
       /\ \E point \in eligible :
            /\ point.row = best.row /\ point.col = best.col
            /\ Manhattan(point, projection) = best.distance
            /\ \A other \in eligible : Precedes(point, other, projection)

\* the windows of the two stages for the step
VicinityWindow(step) == WindowCells(step.projection, range_point_tracking)
RegionWindow(step) ==
  WindowCells(step.projection, tracker.pixel_distance_tracking_threshold) \ VicinityWindow(step)

\* the claim of C17 for one step of the association
StageSelection(step) ==
  /\ Selects(step.match.stage1, Eligible(step, VicinityWindow(step)), step.projection)
  /\ step.match.stage2 # NotRun =>
       /\ Selects(step.match.stage2, Eligible(step, RegionWindow(step)), step.projection)
       /\ Found(step.match.stage2) =>
            << step.match.stage2.row, step.match.stage2.col >> \notin VicinityWindow(step)

\* C17: within a search stage the cell selected for a previous framepoint is
\* the occupied cell of the stage's window with the descriptor distance
\* below the matching threshold and the smallest Manhattan distance to the
\* projection, that distance below the selected pixel distance threshold;
\* among cells at equal distance the first in row-major order is selected;
\* stage 2 never selects a cell inside the window of stage 1
C17_StageSelection ==
  \A i \in 1 .. Len(last.steps) : StageSelection(last.steps[i])

\* C17: stage 1 chose between two eligible cells at the same smallest
\* distance to the projection
C17_Witness ==
  \E i \in 1 .. Len(last.steps) :
    \E point, other \in Eligible(last.steps[i], VicinityWindow(last.steps[i])) :
      /\ point # other
      /\ Manhattan(point, last.steps[i].projection) = last.steps[i].match.stage1.distance
      /\ Manhattan(other, last.steps[i].projection) = last.steps[i].match.stage1.distance

\* the call before this one ran the Tracking branch and did not lose track
PrecededByTracking == last.previous_path = "tracking"

\* C18: the association uses the minimum pixel distance threshold on a frame
\* if and only if the immediately preceding compute() ran the Tracking
\* branch without losing track; on every other frame with a previous frame,
\* the first frame of the Tracking branch after a promotion and every frame
\* after a track loss included, it uses the maximum threshold
C18_ThresholdSelection ==
  last.associated =>
    /\ tracker.pixel_distance_tracking_threshold = pixel_distance_tracking_threshold_minimum
         <=> PrecededByTracking
    /\ ~ PrecededByTracking =>
         tracker.pixel_distance_tracking_threshold = pixel_distance_tracking_threshold_maximum
    /\ (last.entry_status = Tracking /\ last.previous_path = "localizing") =>
         tracker.pixel_distance_tracking_threshold = pixel_distance_tracking_threshold_maximum
    /\ last.previous_path = "lost" =>
         tracker.pixel_distance_tracking_threshold = pixel_distance_tracking_threshold_maximum

\* C18: after a track loss and the promotion that followed it, a frame whose
\* preceding call ran the Tracking branch to its end uses the minimum
\* threshold again
C18_Witness ==
  /\ last.associated
  /\ last.loss_frame > 0
  /\ PrecededByTracking
  /\ tracker.pixel_distance_tracking_threshold = pixel_distance_tracking_threshold_minimum

\* the cells of the grid that hold a framepoint
OccupiedCells(grid) == {cell \in Cells : grid[cell].id # 0}

\* the cells the association emptied
EmptiedCells == OccupiedCells(last.generated) \ OccupiedCells(last.grid_after_tracking)

\* the framepoint the step committed, as the generator made it
Committed(step) == last.generated[<< step.match.row, step.match.col >>]

\* C19: the association within one compute() is one-to-one: a committed
\* grid cell is emptied, so no generated framepoint is the successor of two
\* previous framepoints or appears twice in the current frame's vector, no
\* previous framepoint gets two successors, and after the association the
\* counter of tracked points equals both the size of the current frame's
\* vector and the number of grid cells the association emptied
C19_OneToOne ==
  last.associated =>
    /\ \A k, l \in 1 .. Len(last.tracked_points) :
         k # l => /\ last.tracked_points[k].id # last.tracked_points[l].id
                  /\ last.tracked_points[k].previous # last.tracked_points[l].previous
    /\ \A k \in 1 .. Len(last.tracked_points) :
         /\ last.tracked_points[k].id # 0
         /\ last.generated[<< last.tracked_points[k].row, last.tracked_points[k].col >>].id
              = last.tracked_points[k].id
         /\ << last.tracked_points[k].row, last.tracked_points[k].col >> \in EmptiedCells
         /\ \E p \in 1 .. Len(last.entry_previous_points) :
              last.entry_previous_points[p].id = last.tracked_points[k].previous
    /\ \A i, j \in 1 .. Len(last.steps) :
         (i # j /\ last.steps[i].match.matched /\ last.steps[j].match.matched)
           => Committed(last.steps[i]).id # Committed(last.steps[j]).id
    /\ OccupiedCells(last.grid_after_tracking) \subseteq OccupiedCells(last.generated)
    /\ last.tracked_after_association = Len(last.tracked_points)
    /\ last.tracked_after_association = Cardinality(EmptiedCells)

\* C19: two previous framepoints were associated, and the framepoint the
\* first one took was the nearest eligible one of the second, which was
\* given another
C19_Witness ==
  /\ last.associated
  /\ \E i, j \in 1 .. Len(last.steps) :
       /\ i < j
       /\ last.steps[i].match.matched
       /\ last.steps[j].match.matched
       /\ \E point \in Eligible([last.steps[j] EXCEPT !.candidates = last.steps[i].candidates],
                                VicinityWindow(last.steps[j])) :
            /\ point.id = Committed(last.steps[i]).id
            /\ Manhattan(point, last.steps[j].projection)
                 < Manhattan(Committed(last.steps[j]), last.steps[j].projection)

\* the previous framepoint was projected inside the image: the association
\* searched for it
ProjectedInside(previous_point) ==
  \E i \in 1 .. Len(last.steps) :
    /\ last.steps[i].previous_point.id = previous_point.id
    /\ last.steps[i].projection.row \in 0 .. camera_rows
    /\ last.steps[i].projection.col \in 0 .. camera_cols

\* the previous framepoint belongs in the lost buffer
ToBeLost(previous_point) ==
  /\ ProjectedInside(previous_point)
  /\ previous_point.landmark # 0
  /\ ~ HasSuccessor(previous_point)

\* C20: after the association the lost_points buffer contains exactly the
\* framepoints of the previous frame that were projected inside the image,
\* carry a landmark and were not committed to any current framepoint, in
\* the order of the previous frame, and the counter of lost points equals
\* its size; a framepoint is never both matched and in lost_points, and an
\* unmatched framepoint without a landmark is in neither
C20_LostPoints ==
  last.associated =>
    /\ tracker.lost_points = SelectSeq(last.entry_previous_points, ToBeLost)
    /\ tracker.number_of_lost_points = Len(tracker.lost_points)
    /\ \A p \in 1 .. Len(last.entry_previous_points) :
         /\ ~ (HasSuccessor(last.entry_previous_points[p]) /\ IsLost(last.entry_previous_points[p]))
         /\ last.entry_previous_points[p].landmark = 0 => ~ IsLost(last.entry_previous_points[p])
    /\ \A i \in 1 .. Len(last.steps) :
         last.steps[i].match.matched <=> HasSuccessor(last.steps[i].previous_point)

\* C20: a previous framepoint with a landmark is lost, another one with a
\* landmark is matched, and a framepoint without a landmark is unmatched
C20_Witness ==
  /\ last.associated
  /\ tracker.number_of_lost_points > 0
  /\ \E p \in 1 .. Len(last.entry_previous_points) :
       /\ last.entry_previous_points[p].landmark # 0
       /\ HasSuccessor(last.entry_previous_points[p])
  /\ \E i \in 1 .. Len(last.steps) :
       /\ ~ last.steps[i].match.matched
       /\ last.steps[i].previous_point.landmark = 0

\* the indices of the previous frame's framepoints whose projection fell
\* inside the image bounds
InsideBounds ==
  {k \in 1 .. Len(last.entry_projections) :
     /\ 0 <= last.entry_projections[k].x /\ last.entry_projections[k].x <= camera_cols
     /\ 0 <= last.entry_projections[k].y /\ last.entry_projections[k].y <= camera_rows}

\* the j-th of these indices in the order of the previous frame
NthInside(j) ==
  CHOOSE k \in InsideBounds : Cardinality({m \in InsideBounds : m < k}) = j - 1

\* C21: after compute() on a frame with a previous frame, the previous
\* frame's framepoint vector contains exactly those of its framepoints whose
\* projection fell inside the image bounds (0 <= x <= cols, 0 <= y <= rows),
\* in their original order, with projection i belonging to framepoint i;
\* the framepoints projected out of the field of view are dropped from it
\* and are never added to lost_points, even when they carry a landmark
C21_PreviousFrameCompacted ==
  last.associated =>
    /\ Len(last.entry_projections) = Len(last.entry_previous_points)
    /\ Len(context.previous_frame.points) = Cardinality(InsideBounds)
    /\ Len(tracker.projected_image_coordinates_left) = Cardinality(InsideBounds)
    /\ \A j \in 1 .. Cardinality(InsideBounds) :
         /\ context.previous_frame.points[j] = last.entry_previous_points[NthInside(j)]
         /\ tracker.projected_image_coordinates_left[j] = last.entry_projections[NthInside(j)]
    /\ \A k \in (1 .. Len(last.entry_previous_points)) \ InsideBounds :
         /\ ~ IsLost(last.entry_previous_points[k])
         /\ ~ HasSuccessor(last.entry_previous_points[k])
         /\ \A j \in 1 .. Len(context.previous_frame.points) :
              context.previous_frame.points[j].id # last.entry_previous_points[k].id

\* C21: a framepoint with a landmark is projected out of the field of view
\* and dropped, a later framepoint moves to its place, and a framepoint
\* projected on the border of the image is retained
C21_Witness ==
  /\ last.associated
  /\ \E k \in (1 .. Len(last.entry_previous_points)) \ InsideBounds :
       /\ last.entry_previous_points[k].landmark # 0
       /\ \E m \in InsideBounds : m > k
  /\ \E m \in InsideBounds :
       \/ last.entry_projections[m].x = camera_cols
       \/ last.entry_projections[m].y = camera_rows

\* the indices of the current frame's framepoints that are old enough to be
\* landmarks
MatureIndices ==
  {k \in 1 .. Len(context.current_frame.points) :
     context.current_frame.points[k].track_length >= minimumTrackLengthForLandmarkCreation}

\* the j-th of these indices in the order of the frame
NthMature(j) ==
  CHOOSE k \in MatureIndices : Cardinality({m \in MatureIndices : m < k}) = j - 1

\* the landmark the framepoint had before the promotion: the one it
\* inherited from its predecessor at the association or at its recovery
InheritedLandmark(point) ==
  LET before == last.tracked_points \o last.recovered_points
  IN IF \E k \in 1 .. Len(before) : before[k].id = point.id
     THEN before[CHOOSE k \in 1 .. Len(before) : before[k].id = point.id].landmark
     ELSE 0

\* the landmark is in the currently tracked set
InTrackedSet(landmark) ==
  \E j \in 1 .. Len(context.currently_tracked_landmarks) :
    context.currently_tracked_landmarks[j] = landmark

LandmarksUntouched ==
  /\ Len(context.landmarks) = Len(last.entry_landmarks)
  /\ \A landmark \in 1 .. Len(context.landmarks) :
       /\ context.landmarks[landmark].updates = last.entry_landmarks[landmark].updates
       /\ context.landmarks[landmark].near = last.entry_landmarks[landmark].near
       /\ ~ context.landmarks[landmark].is_currently_tracked

\* C23: a compute() whose status on return is Localizing (a Localizing frame
\* that does not meet the promotion criterion, or a track loss) creates no
\* landmark, updates no landmark and leaves the currently tracked set empty;
\* landmarks are created only in a compute() that returns with the status
\* Tracking
C23_NoLandmarksWhileLocalizing ==
  Returned =>
    /\ tracker.status = Localizing =>
         /\ last.path = "lost" \/ ~ last.promoted
         /\ LandmarksUntouched
         /\ last.landmarks_created = 0
         /\ context.currently_tracked_landmarks = << >>
    /\ Len(context.landmarks) > Len(last.entry_landmarks) => tracker.status = Tracking
    /\ last.landmarks_created > 0 => tracker.status = Tracking

\* C23: the track is lost on a frame that tracked framepoints old enough
\* for a landmark, some of them with a landmark of the set the previous
\* call left, and some without one
C23_Witness ==
  /\ Returned
  /\ last.path = "lost"
  /\ tracker.status = Localizing
  /\ last.entry_landmarks # << >>
  /\ \E landmark \in 1 .. Len(last.entry_landmarks) :
       last.entry_landmarks[landmark].is_currently_tracked
  /\ \E k \in 1 .. Len(last.tracked_points) :
       /\ last.tracked_points[k].landmark = 0
       /\ last.tracked_points[k].track_length >= minimumTrackLengthForLandmarkCreation

\* the framepoint weight the Tracking branch computed from the counters the
\* association left
WeightAtAssertion ==
  WeightFramepoint(tracker.number_of_tracked_landmarks_far,
                   tracker.number_of_tracked_landmarks_close,
                   last.tracked_after_association)

\* C24 as stated: the assertion that the framepoint weight of the Tracking
\* branch, 1 - (n_far + 7 * n_close) / n_tracked, is at most 1 holds on every
\* frame processed in the Tracking branch, for every reachable combination
\* of the counters, a frame on which no previous framepoint could be
\* associated (n_tracked = 0) included
C24_AsStated ==
  (last.entry_status = Tracking /\ last.associated) => WeightAssertion(WeightAtAssertion)

\* the framepoints that were in the frame's vector when the new ones were
\* added: the tracked ones, after the pruning and the recovery of the
\* Tracking branch
Survivors ==
  IF last.path = "tracking" THEN last.pruned_points \o last.recovered_points
  ELSE last.tracked_points

\* the cells still occupied after the association
Remaining == OccupiedCells(last.grid_after_tracking)

\* the j-th of these cells in row-major order
NthRemaining(j) ==
  CHOOSE cell \in Remaining :
    Cardinality({other \in Remaining :
                   CellIndex(other[1], other[2]) < CellIndex(cell[1], cell[2])}) = j - 1

\* C25: after a compute() that does not lose track the current frame's
\* vector consists of the surviving tracked (and recovered) framepoints
\* followed by one framepoint for every grid cell still occupied after the
\* association, in row-major order and each without a predecessor; the
\* writes never go past the size number_of_available_points + recovered the
\* vector was resized to, and in the Localizing branch the final number of
\* framepoints equals number_of_available_points
C25_NewFramepoints ==
  (Returned /\ last.path # "lost") =>
    /\ last.appended
    /\ Len(context.current_frame.points) = Len(Survivors) + Cardinality(Remaining)
    /\ \A k \in 1 .. Len(Survivors) :
         /\ context.current_frame.points[k].id = Survivors[k].id
         /\ context.current_frame.points[k].previous = Survivors[k].previous
         /\ context.current_frame.points[k].previous # 0
    /\ \A j \in 1 .. Cardinality(Remaining) :
         /\ context.current_frame.points[Len(Survivors) + j]
              = last.grid_after_tracking[NthRemaining(j)]
         /\ context.current_frame.points[Len(Survivors) + j].previous = 0
    /\ ~ last.out_of_range
    /\ Len(context.current_frame.points)
         <= tracker.number_of_potential_points + tracker.number_of_lost_points_recovered
    /\ tracker.number_of_potential_points = Cardinality(GeneratedPoints)
    /\ tracker.number_of_lost_points_recovered = Len(last.recovered_points)
    /\ last.entry_status = Localizing =>
         Len(context.current_frame.points) = tracker.number_of_potential_points

\* C25: a Tracking frame that kept tracked framepoints, recovered a lost one
\* and added new framepoints from the cells the association left occupied
C25_Witness ==
  /\ Returned
  /\ last.path = "tracking"
  /\ last.pruned_points # << >>
  /\ last.recovered_points # << >>
  /\ Remaining # {}

\* C26: at every boundary of compute() of a tracker that starts in
\* Localizing, the status Localizing implies the previous status
\* Localizing: the previous status is Tracking only when the status is
\* Tracking, and a track loss resets both to Localizing
C26_StatusPair ==
  /\ tracker.status = Localizing => tracker.status_previous = Localizing
  /\ tracker.status_previous = Tracking => tracker.status = Tracking
  /\ last.path = "lost" =>
       /\ tracker.status = Localizing
       /\ tracker.status_previous = Localizing

\* C26: the track is lost by a call that was entered with both the status
\* and the previous status Tracking
C26_Witness ==
  /\ last.path = "lost"
  /\ last.entry_status = Tracking
  /\ last.previous_path = "tracking"
  /\ tracker.status = Localizing
  /\ tracker.status_previous = Localizing

\* C27: for any sequence of compute() calls on a fresh tracker, whenever the
\* Tracking branch runs the current frame has a previous frame, so that the
\* accesses to current_frame->previous() in that branch never meet a null
\* frame; in particular the status is never Tracking when the first frame
\* is processed
C27_TrackingHasPrevious ==
  /\ last.path # "null_previous"
  /\ (last.frame > 0 /\ last.entry_status = Tracking) =>
       /\ last.frame > 1
       /\ last.associated
       /\ context.current_frame.previous # 0
       /\ context.current_frame.previous = context.previous_frame.id
  /\ last.frame = 1 => last.entry_status = Localizing
  /\ tracker.status = Tracking => context.current_frame.id # 0

\* C27: the Tracking branch ran to its end on the frame that follows the
\* promotion
C27_Witness ==
  /\ last.path = "tracking"
  /\ last.entry_status = Tracking
  /\ last.previous_path = "localizing"
  /\ context.current_frame.previous # 0

\* C28: after every call of compute(), on the normal path and on the track
\* loss path alike, the status stored in the current frame equals the
\* tracker's status; in particular the frame on which the tracker is
\* promoted from Localizing to Tracking is labelled Tracking and the frame
\* on which the track is lost is labelled Localizing
C28_FrameStatus ==
  Returned =>
    /\ context.current_frame.id = last.frame
    /\ context.current_frame.status = tracker.status
    /\ (last.entry_status = Localizing /\ last.promoted) =>
         context.current_frame.status = Tracking
    /\ last.path = "lost" => context.current_frame.status = Localizing

\* C28: the frame on which the tracker is promoted carries the status
\* Tracking, and the frame before it the status Localizing
C28_Witness ==
  /\ Returned
  /\ last.entry_status = Localizing
  /\ last.promoted
  /\ context.current_frame.status = Tracking
  /\ context.previous_frame.status = Localizing

==========================================================================
